---- MODULE Spec2Model ----
(***************************************************************************)
(* Key-lifecycle protocol of the chat application: the Key Directory       *)
(* Service (backend routes and models over the user_keys, chat_keys and    *)
(* chats tables) and the browser client (app.js, crypto-helper.js).        *)
(*                                                                         *)
(* Every directory request is applied as one step: requests are serialised *)
(* at the store.  Client flows span several requests and interleave        *)
(* between them.  The store is assumed to answer every query without an    *)
(* error.                                                                  *)
(***************************************************************************)
EXTENDS Integers, FiniteSets, Sequences, TLC

VARIABLES
    user_keys,      \* table user_keys
    chat_keys,      \* table chat_keys
    chats,          \* table chats
    messages,       \* table messages
    users,          \* table users (profiles): the ids that have a row
    auth,           \* accounts of the authentication provider
    resp,           \* response to the last request the backend handled
    wire,           \* every key or content value sent to the backend or provider
    pc,             \* per user: where the browser client stands
    userPassword,   \* per user: the password the user currently has
    storedMasterKey, \* per user: master key in the device's IndexedDB
    privateKey,     \* per user: cryptoHelper.privateKey
    publicKey,      \* per user: cryptoHelper.publicKey
    chatKeys,       \* per user: cryptoHelper.chatKeys, the keys held in memory
    currentChatId,  \* per user: app.js currentChatId
    frame,          \* per user: the key the handler in progress holds in a local
    generated,      \* per user: chat keys the device has generated
    localStorage,   \* per user: the chatKey_<id> items of the device's localStorage
    rooms,          \* per user: the chat:<id> rooms the user's socket has joined
    inbox,          \* per user: 'message:receive' events on their way to the socket
    displayed,      \* per user: what the messages pane shows
    sockets,        \* per socket: whether it is open and where its handlers stand
    connectedUsers, \* socket/index.ts connectedUsers: per user, the socket ids
    userStatus,     \* per user: the status column of the profile
    directRequest   \* per user: where its POST /api/chats/direct request stands

serverVars == <<user_keys, chat_keys, chats, messages, users, resp>>
clientVars == <<auth, wire, pc, userPassword, storedMasterKey, privateKey, publicKey,
                chatKeys, currentChatId, frame, generated, localStorage, rooms, inbox,
                displayed>>
backendVars == <<sockets, connectedUsers, userStatus, directRequest>>
vars == <<serverVars, clientVars, backendVars>>

-----------------------------------------------------------------------------
(* Bounds *)

\* chat keys one device may generate
MaxChatKey == 1

\* passwords a user goes through (password changes + 1)
MaxPw == 2

\* rows the messages table may hold
MaxMsg == 1

\* identity key pairs an account gets: the one of its signup and the ones
\* uploaded from other devices
MaxGen == 2

\* messages stored in the histories of SpecHistory
MaxBatch == 2

Users == {"u1", "u2"}

\* socket ids: two sockets of u1 (two tabs or devices) and one of u2
SocketIds == {"s1", "s2", "s3"}
SocketUser(s) == IF s = "s3" THEN "u2" ELSE "u1"
NoUser == "-"

\* chat ids a request may name; "c0" names no row of the chats table
ChatIds == {"c0", "c1", "c2"}
NoChat == "-"

-----------------------------------------------------------------------------
(* Key material.  A value is a term: its kind, the payload (owner, id) and, *)
(* for a ciphertext, the key it is wrapped under (kowner, kid).            *)

Term(kind, owner, id, kowner, kid) ==
    [kind |-> kind, owner |-> owner, id |-> id, kowner |-> kowner, kid |-> kid]

\* null: a NULL column, an empty slot, a failed decryption
Null == [kind |-> "null"]

\* RSA-OAEP key pair of user u, generation g
PublicKey(u, g) == Term("publicKey", u, g, NoUser, 0)
PrivateKey(u, g) == Term("privateKey", u, g, NoUser, 0)

\* AES-GCM master key of user u
MasterKey(u, m) == Term("masterKey", u, m, NoUser, 0)

\* AES-GCM key of a conversation: the k-th key generated on u's device
ChatKey(u, k) == Term("chatKey", u, k, NoUser, 0)

\* a message the user typed, and the fresh AES-GCM nonce of its encryption
Message(u, n) == Term("plaintext", u, n, NoUser, 0)
Iv(u, n) == Term("iv", u, n, NoUser, 0)

\* the user's literal password
Password(u, p) == Term("password", u, p, NoUser, 0)

\* variant: the password itself in place of its hash
deriveAuthPasswordIdentity(password, email) == password

\* SHA-256(password ':auth:' email)
deriveAuthPassword(password, email) ==
    Term("authCredential", email, password.id, NoUser, 0)

\* variant: the chat key wrapped under the public key of its own generator
encryptChatKeyForSelf(chatKey, recipientPublicKey) ==
    Term("wrappedChatKey", chatKey.owner, chatKey.id, chatKey.owner, 1)

\* RSA-OAEP encryption of a chat key under a public key
encryptChatKey(chatKey, recipientPublicKey) ==
    Term("wrappedChatKey", chatKey.owner, chatKey.id,
         recipientPublicKey.owner, recipientPublicKey.id)

\* RSA-OAEP decryption: fails (Null) unless the private key matches
rsaDecrypt(encryptedKey, rsaPrivateKey) ==
    IF /\ encryptedKey.kind = "wrappedChatKey"
       /\ rsaPrivateKey.kind = "privateKey"
       /\ encryptedKey.kowner = rsaPrivateKey.owner
       /\ encryptedKey.kid = rsaPrivateKey.id
    THEN ChatKey(encryptedKey.owner, encryptedKey.id)
    ELSE Null

\* AES-GCM wrap of the master key under the PBKDF2 key of (password, email)
encryptMasterKeyWithPassword(masterKey, password, email) ==
    Term("wrappedMasterKey", masterKey.owner, masterKey.id, email, password.id)

\* unwrap: fails (Null) unless password and salt reproduce the wrapping key
decryptMasterKeyWithPassword(encryptedData, password) ==
    IF /\ encryptedData.kind = "wrappedMasterKey"
       /\ password.kind = "password"
       /\ encryptedData.kowner = password.owner
       /\ encryptedData.kid = password.id
    THEN MasterKey(encryptedData.owner, encryptedData.id)
    ELSE Null

\* AES-GCM encryption of the exported private key under the master key
encryptRSAPrivateKey(rsaPrivateKey, masterKey) ==
    Term("wrappedPrivateKey", rsaPrivateKey.owner, rsaPrivateKey.id,
         masterKey.owner, masterKey.id)

\* AES-GCM decryption: fails (Null) unless the master key matches
decryptRSAPrivateKey(encryptedData, masterKey) ==
    IF /\ encryptedData.kind = "wrappedPrivateKey"
       /\ masterKey.kind = "masterKey"
       /\ encryptedData.kowner = masterKey.owner
       /\ encryptedData.kid = masterKey.id
    THEN PrivateKey(encryptedData.owner, encryptedData.id)
    ELSE Null

\* AES-GCM encryption of a message under a chat key, with a fresh nonce
encryptMessage(message, chatKey) ==
    [encrypted |-> Term("encryptedMessage", message.owner, message.id,
                        chatKey.owner, chatKey.id),
     iv |-> Iv(message.owner, message.id)]

\* AES-GCM decryption: fails (Null) unless the chat key and the nonce are
\* those of the encryption
decryptMessage(encryptedContent, iv, chatKey) ==
    IF /\ encryptedContent.kind = "encryptedMessage"
       /\ chatKey.kind = "chatKey"
       /\ encryptedContent.kowner = chatKey.owner
       /\ encryptedContent.kid = chatKey.id
       /\ iv = Iv(encryptedContent.owner, encryptedContent.id)
    THEN Message(encryptedContent.owner, encryptedContent.id)
    ELSE Null

-----------------------------------------------------------------------------
(* Tables *)

\* a row of user_keys
UserKey(userId, rsaPublicKey, encryptedMasterKey, encryptedRSAPrivateKey) ==
    [user_id |-> userId, public_key |-> rsaPublicKey,
     encrypted_master_key |-> encryptedMasterKey,
     encrypted_rsa_private_key |-> encryptedRSAPrivateKey]

\* a row of chat_keys
ChatKeyRow(chatId, senderId, recipientId, encryptedChatKey) ==
    [chat_id |-> chatId, sender_id |-> senderId, recipient_id |-> recipientId,
     encrypted_chat_key |-> encryptedChatKey]

\* a row of chats
Chat(id, type, participants) ==
    [id |-> id, type |-> type, participants |-> participants]

\* a row of messages
MessageRow(id, chatId, senderId, encryptedContent, iv) ==
    [id |-> id, chat_id |-> chatId, sender_id |-> senderId,
     encrypted_content |-> encryptedContent, iv |-> iv, status |-> "sent"]

\* an account of the authentication provider
Account(email, credential) == [email |-> email, password |-> credential]

-----------------------------------------------------------------------------
(* KeysModel and ChatModel: queries over the tables *)

\* .single(): the row when exactly one matches, no row otherwise
Single(rows) == IF Cardinality(rows) = 1 THEN rows ELSE {}

upsertPublicKey(uk, userId, public_key) ==
    IF \E r \in uk : r.user_id = userId
    THEN {IF r.user_id = userId THEN [r EXCEPT !.public_key = public_key] ELSE r
          : r \in uk}
    ELSE uk \cup {UserKey(userId, public_key, Null, Null)}

getPublicKey(uk, userId) ==
    LET data == Single({r \in uk : r.user_id = userId})
    IN  IF data = {} THEN Null ELSE (CHOOSE r \in data : TRUE).public_key

\* variant: an upload that inserts a row
uploadUserKeysInsert(uk, userId, rsaPublicKey, encryptedMasterKey, encryptedRSAPrivateKey) ==
    uk \cup {UserKey(userId, rsaPublicKey, encryptedMasterKey, encryptedRSAPrivateKey)}

uploadUserKeys(uk, userId, rsaPublicKey, encryptedMasterKey, encryptedRSAPrivateKey) ==
    {r \in uk : r.user_id # userId}
        \cup {UserKey(userId, rsaPublicKey, encryptedMasterKey, encryptedRSAPrivateKey)}

getUserKeys(uk, userId) == Single({r \in uk : r.user_id = userId})

\* variant: an update that writes the whole row anew
updateEncryptedMasterKeyWholeRow(uk, userId, encryptedMasterKey) ==
    {IF r.user_id = userId
     THEN UserKey(userId, r.public_key, encryptedMasterKey, Null) ELSE r
     : r \in uk}

updateEncryptedMasterKey(uk, userId, encryptedMasterKey) ==
    {IF r.user_id = userId
     THEN [r EXCEPT !.encrypted_master_key = encryptedMasterKey] ELSE r
     : r \in uk}

\* variant: a cleanup that deletes only the rows addressed to the user
deleteUserChatKeysRecipientOnly(ck, userId) ==
    {r \in ck : r.recipient_id # userId}

\* variant: a cleanup that deletes the rows of every user
deleteUserChatKeysAll(ck, userId) ==
    {r \in ck : r.recipient_id # r.recipient_id}

deleteUserChatKeys(ck, userId) ==
    LET afterRecipient == {r \in ck : r.recipient_id # userId}
    IN  {r \in afterRecipient : r.sender_id # userId}

\* variant: a plain insert in place of the upsert
shareChatKeyInsert(ck, chatId, senderId, recipientId, encryptedChatKey) ==
    ck \cup {ChatKeyRow(chatId, senderId, recipientId, encryptedChatKey)}

shareChatKey(ck, chatId, senderId, recipientId, encryptedChatKey) ==
    {r \in ck : ~(r.chat_id = chatId /\ r.recipient_id = recipientId)}
        \cup {ChatKeyRow(chatId, senderId, recipientId, encryptedChatKey)}

\* variant: a lookup that does not filter on the recipient
getChatKeyAnyRecipient(ck, chatId, userId) ==
    LET data == {r \in ck : r.chat_id = chatId}
    IN  IF data = {} THEN Null
        ELSE (CHOOSE r \in data : \A q \in data : r.recipient_id # userId \/ q.recipient_id = userId).encrypted_chat_key

getChatKey(ck, chatId, userId) ==
    LET data == Single({r \in ck : r.chat_id = chatId /\ r.recipient_id = userId})
    IN  IF data = {} THEN Null ELSE (CHOOSE r \in data : TRUE).encrypted_chat_key

getAllChatKeys(ck, chatId) == {r \in ck : r.chat_id = chatId}

getChatById(ch, chatId) == Single({c \in ch : c.id = chatId})

\* variant: a membership test that only looks for the chat row
isUserInChatAnyUser(ch, chatId, userId) ==
    Single({c \in ch : c.id = chatId}) # {}

isUserInChat(ch, chatId, userId) ==
    LET data == Single({c \in ch : c.id = chatId})
    IN  data # {} /\ userId \in (CHOOSE c \in data : TRUE).participants

getDirectChat(ch, userId1, userId2) ==
    Single({c \in ch : c.type = "direct" /\ {userId1, userId2} \subseteq c.participants})

\* the id uuidv4() gives the new row: one direct chat and one group exist
NewChatId(type) == IF type = "direct" THEN "c1" ELSE "c2"

createChat(ch, type, createdBy, participants) ==
    IF /\ type = "direct"
       /\ Cardinality(participants) = 2
       /\ Single({c \in ch : c.type = "direct" /\ participants \subseteq c.participants}) # {}
    THEN ch
    ELSE ch \cup {Chat(NewChatId(type), type, participants)}

\* variant: the row stored without the nonce
createMessageWithoutIv(ms, chatId, senderId, encryptedContent, iv) ==
    ms \cup {MessageRow(Cardinality(ms) + 1, chatId, senderId, encryptedContent, Null)}

createMessage(ms, chatId, senderId, encryptedContent, iv) ==
    ms \cup {MessageRow(Cardinality(ms) + 1, chatId, senderId, encryptedContent, iv)}

getMessages(ms, chatId) == {m \in ms : m.chat_id = chatId}

-----------------------------------------------------------------------------
(* Responses.  resp is the response to the last request handled: the route, *)
(* the authenticated caller, the user or chat the request names, the HTTP  *)
(* status, the rows and key values of the body, the socket events emitted  *)
(* while handling it, the flags key_rotation (POST /public-key) and        *)
(* keys_cleared (POST /sync) of the body, and rows_before, the number of   *)
(* chat_keys rows the store held when the request arrived.                 *)

Response(op, caller, target, status, rows, terms, emits, flag) ==
    [op |-> op, caller |-> caller, target |-> target, status |-> status,
     chat_keys |-> rows, terms |-> terms, emits |-> emits,
     key_rotation |-> (op = "postPublicKey" /\ flag),
     keys_cleared |-> (op = "postAuthSync" /\ flag),
     rows_before |-> 0]

\* the response as the request log records it, with the store's row count
Served(response, ck) == [response EXCEPT !.rows_before = Cardinality(ck)]

NoResponse == Response("none", NoUser, NoUser, 0, {}, {}, {}, FALSE)

\* the 'chat:key:received' event for room user:<to>
KeyReceived(to, chatId, from, encryptedChatKey) ==
    [event |-> "chat:key:received", to |-> to, chatId |-> chatId, from |-> from,
     content |-> encryptedChatKey]

\* the 'message:receive' event for room chat:<chatId>: the stored row and iv
MessageReceive(chatId, from, encryptedContent, iv) ==
    [event |-> "message:receive", to |-> chatId, chatId |-> chatId, from |-> from,
     content |-> encryptedContent, iv |-> iv]

\* participants of the chat row (the route has checked that the row exists)
ParticipantsOf(ch, chatId) == (CHOOSE c \in getChatById(ch, chatId) : TRUE).participants

-----------------------------------------------------------------------------
(* Routes of the Key Directory Service.  The caller is the principal that  *)
(* verifySupabaseToken attached to the request.                            *)

\* POST /api/keys
PostKeys(userId, rsa_public_key, encrypted_master_key, encrypted_rsa_private_key) ==
    /\ user_keys' = uploadUserKeys(user_keys, userId, rsa_public_key,
                                   encrypted_master_key, encrypted_rsa_private_key)
    /\ resp' = Served(Response("postKeys", userId, userId, 200, {}, {}, {}, FALSE), chat_keys)
    /\ UNCHANGED <<chat_keys, chats, messages, users>>

\* GET /api/keys/:userId
\* variant: the route without the owner check
GetKeysResponseAnyCaller(uk, caller, userId) ==
    LET keys == getUserKeys(uk, userId)
    IN  IF keys = {}
        THEN Response("getKeys", caller, userId, 404, {}, {}, {}, FALSE)
        ELSE LET k == CHOOSE r \in keys : TRUE
             IN  Response("getKeys", caller, userId, 200, {},
                          {k.encrypted_master_key,
                           k.encrypted_rsa_private_key, k.public_key},
                          {}, FALSE)

GetKeysResponse(uk, caller, userId) ==
    IF userId # caller
    THEN Response("getKeys", caller, userId, 403, {}, {}, {}, FALSE)
    ELSE LET keys == getUserKeys(uk, userId)
         IN  IF keys = {}
             THEN Response("getKeys", caller, userId, 404, {}, {}, {}, FALSE)
             ELSE LET k == CHOOSE r \in keys : TRUE
                  IN  Response("getKeys", caller, userId, 200, {},
                               {k.encrypted_master_key,
                                k.encrypted_rsa_private_key, k.public_key},
                               {}, FALSE)

GetKeys(caller, userId) ==
    /\ resp' = Served(GetKeysResponse(user_keys, caller, userId), chat_keys)
    /\ UNCHANGED <<user_keys, chat_keys, chats, messages, users>>

\* PATCH /api/keys
PatchKeys(userId, encrypted_master_key) ==
    /\ user_keys' = updateEncryptedMasterKey(user_keys, userId, encrypted_master_key)
    /\ resp' = Served(Response("patchKeys", userId, userId, 200, {}, {}, {}, FALSE), chat_keys)
    /\ UNCHANGED <<chat_keys, chats, messages, users>>

\* POST /api/users/public-key
PostPublicKey(userId, public_key) ==
    LET existingKey == getPublicKey(user_keys, userId)
        isKeyRotation == existingKey # Null
    IN  /\ user_keys' = upsertPublicKey(user_keys, userId, public_key)
        /\ chat_keys' = IF isKeyRotation
                        THEN deleteUserChatKeys(chat_keys, userId)
                        ELSE chat_keys
        /\ resp' = Served(Response("postPublicKey", userId, userId, 200, {}, {}, {},
                            isKeyRotation), chat_keys)
        /\ UNCHANGED <<chats, messages, users>>

\* GET /api/users/:userId/public-key
GetPublicKeyResponse(uk, caller, userId) ==
    LET public_key == getPublicKey(uk, userId)
    IN  IF public_key = Null
        THEN Response("getPublicKey", caller, userId, 404, {}, {}, {}, FALSE)
        ELSE Response("getPublicKey", caller, userId, 200, {}, {public_key}, {}, FALSE)

GetPublicKey(caller, userId) ==
    /\ resp' = Served(GetPublicKeyResponse(user_keys, caller, userId), chat_keys)
    /\ UNCHANGED <<user_keys, chat_keys, chats, messages, users>>

\* POST /api/auth/sync
PostAuthSync(userId, has_keys) ==
    /\ chat_keys' = IF ~has_keys THEN deleteUserChatKeys(chat_keys, userId)
                    ELSE chat_keys
    /\ resp' = Served(Response("postAuthSync", userId, userId, 200, {}, {}, {}, ~has_keys), chat_keys)
    /\ UNCHANGED <<user_keys, chats, messages, users>>

\* POST /api/chats/:chatId/share-key: the status the route answers with
ShareKeyStatus(ch, userId, chatId, recipient_id) ==
    IF getChatById(ch, chatId) = {} THEN 404
    ELSE IF userId \notin ParticipantsOf(ch, chatId) THEN 403
    ELSE IF recipient_id \notin ParticipantsOf(ch, chatId) THEN 400
    ELSE 200

PostShareKey(userId, chatId, recipient_id, encrypted_chat_key) ==
    LET status == ShareKeyStatus(chats, userId, chatId, recipient_id)
    IN  /\ chat_keys' = IF status = 200
                        THEN shareChatKey(chat_keys, chatId, userId, recipient_id,
                                          encrypted_chat_key)
                        ELSE chat_keys
        /\ resp' = Served(Response("postShareKey", userId, chatId, status, {}, {}, {}, FALSE), chat_keys)
        /\ UNCHANGED <<user_keys, chats, messages, users>>

\* GET /api/chats/:chatId/my-key
GetMyKeyResponse(ch, ck, userId, chatId) ==
    IF getChatById(ch, chatId) = {}
    THEN Response("getMyKey", userId, chatId, 404, {}, {}, {}, FALSE)
    ELSE IF userId \notin ParticipantsOf(ch, chatId)
    THEN Response("getMyKey", userId, chatId, 403, {}, {}, {}, FALSE)
    ELSE LET encryptedKey == getChatKey(ck, chatId, userId)
         IN  IF encryptedKey = Null
             THEN Response("getMyKey", userId, chatId, 404, {}, {}, {}, FALSE)
             ELSE Response("getMyKey", userId, chatId, 200, {}, {encryptedKey},
                           {}, FALSE)

\* variant: the route removes the record it has served
GetMyKeyOnce(userId, chatId) ==
    /\ resp' = Served(GetMyKeyResponse(chats, chat_keys, userId, chatId), chat_keys)
    /\ chat_keys' = {r \in chat_keys : ~(r.chat_id = chatId /\ r.recipient_id = userId)}
    /\ UNCHANGED <<user_keys, chats, messages, users>>

GetMyKey(userId, chatId) ==
    /\ resp' = Served(GetMyKeyResponse(chats, chat_keys, userId, chatId), chat_keys)
    /\ UNCHANGED <<user_keys, chat_keys, chats, messages, users>>

\* GET /api/chats/:chatId/keys
\* variant: the route without the participant check
GetChatKeysResponseAnyCaller(ch, ck, userId, chatId) ==
    IF getChatById(ch, chatId) = {}
    THEN Response("getChatKeys", userId, chatId, 404, {}, {}, {}, FALSE)
    ELSE Response("getChatKeys", userId, chatId, 200, getAllChatKeys(ck, chatId),
                  {}, {}, FALSE)

GetChatKeysResponse(ch, ck, userId, chatId) ==
    IF getChatById(ch, chatId) = {}
    THEN Response("getChatKeys", userId, chatId, 404, {}, {}, {}, FALSE)
    ELSE IF userId \notin ParticipantsOf(ch, chatId)
    THEN Response("getChatKeys", userId, chatId, 403, {}, {}, {}, FALSE)
    ELSE Response("getChatKeys", userId, chatId, 200, getAllChatKeys(ck, chatId),
                  {}, {}, FALSE)

GetChatKeys(userId, chatId) ==
    /\ resp' = Served(GetChatKeysResponse(chats, chat_keys, userId, chatId), chat_keys)
    /\ UNCHANGED <<user_keys, chat_keys, chats, messages, users>>

\* socket.on('chat:key:share'): userId is the socket's authenticated user
SocketKeyShare(userId, chatId, recipientId, encryptedChatKey) ==
    LET isInChat == isUserInChat(chats, chatId, userId)
    IN  /\ chat_keys' = IF isInChat
                        THEN shareChatKey(chat_keys, chatId, userId, recipientId,
                                          encryptedChatKey)
                        ELSE chat_keys
        /\ resp' = Served(Response("socketKeyShare", userId, chatId,
                            IF isInChat THEN 200 ELSE 403, {}, {},
                            IF isInChat
                            THEN {KeyReceived(recipientId, chatId, userId,
                                              encryptedChatKey)}
                            ELSE {},
                            FALSE), chat_keys)
        /\ UNCHANGED <<user_keys, chats, messages, users>>

\* GET /api/auth/me
GetAuthMe(userId) ==
    /\ users' = users \cup {userId}
    /\ resp' = Served(Response("getAuthMe", userId, userId, 200, {}, {}, {}, FALSE), chat_keys)
    /\ UNCHANGED <<user_keys, chat_keys, chats, messages>>

\* POST /api/chats/direct/:userId: the status the route answers with
DirectChatStatus(us, currentUserId, otherUserId) ==
    IF currentUserId = otherUserId THEN 400
    ELSE IF otherUserId \notin us THEN 404
    ELSE 200

PostDirectChat(currentUserId, otherUserId) ==
    LET status == DirectChatStatus(users, currentUserId, otherUserId)
    IN  /\ users' = IF status # 400 THEN users \cup {currentUserId} ELSE users
        /\ chats' = IF status # 200 \/ getDirectChat(chats, currentUserId, otherUserId) # {}
                     THEN chats
                     ELSE createChat(chats, "direct", currentUserId,
                                     {currentUserId, otherUserId})
        /\ resp' = Served(Response("postDirectChat", currentUserId, otherUserId, status,
                                   {}, {}, {}, FALSE), chat_keys)
        /\ UNCHANGED <<user_keys, chat_keys, messages>>

\* GET /api/chats/:chatId/messages
GetMessagesResponse(ch, ms, userId, chatId) ==
    IF getChatById(ch, chatId) = {}
    THEN Response("getMessages", userId, chatId, 404, {}, {}, {}, FALSE)
    ELSE IF userId \notin ParticipantsOf(ch, chatId)
    THEN Response("getMessages", userId, chatId, 403, {}, {}, {}, FALSE)
    ELSE Response("getMessages", userId, chatId, 200, {},
                  {m.encrypted_content : m \in getMessages(ms, chatId)}, {}, FALSE)

\* the messages of the body: the rows, each with its metadata.iv
GetMessagesBody(ch, ms, userId, chatId) ==
    IF GetMessagesResponse(ch, ms, userId, chatId).status = 200
    THEN getMessages(ms, chatId)
    ELSE {}

\* socket.on('message:send')
SocketMessageSend(userId, chatId, encryptedContent, iv) ==
    LET isInChat == isUserInChat(chats, chatId, userId)
    IN  /\ messages' = IF isInChat
                        THEN createMessage(messages, chatId, userId, encryptedContent, iv)
                        ELSE messages
        /\ resp' = Served(Response("socketMessageSend", userId, chatId,
                                   IF isInChat THEN 200 ELSE 403, {}, {},
                                   IF isInChat
                                   THEN {MessageReceive(chatId, userId, encryptedContent, iv)}
                                   ELSE {},
                                   FALSE), chat_keys)
        /\ UNCHANGED <<user_keys, chat_keys, chats, users>>

-----------------------------------------------------------------------------
(* The directory under arbitrary authenticated callers *)

\* request bodies the callers draw from
PublicKeyInputs(u) == {PublicKey(u, 1)}

MasterKeyInputs(u) ==
    {encryptMasterKeyWithPassword(MasterKey(u, 1), Password(u, 1), u)}

\* a caller wraps a chat key of its own device for the recipient
ChatKeyInputs(u, r) ==
    {encryptChatKey(ChatKey(u, k), PublicKey(r, 1)) : k \in 1..MaxChatKey}

\* chats table after POST /api/chats/direct/u2 by u1 and POST /api/chats
\* {type: group, participant_ids: [u1]} by u1
InitChats == {Chat("c1", "direct", {"u1", "u2"}), Chat("c2", "group", {"u1"})}

\* the key a handler holds in a local: none in progress
NoFrame == Null

\* a socket: whether the transport is connected, and where the server's
\* handlers for it stand
Socket(open, phase) == [open |-> open, phase |-> phase]

\* a socket id that has not connected
NoSocket == Socket(FALSE, "absent")

\* both accounts are registered and logged out; no keys are on file
Init ==
    /\ user_keys = {}
    /\ chat_keys = {}
    /\ chats = InitChats
    /\ messages = {}
    /\ users = Users
    /\ auth = {Account(u, deriveAuthPassword(Password(u, 1), u)) : u \in Users}
    /\ resp = NoResponse
    /\ wire = {deriveAuthPassword(Password(u, 1), u) : u \in Users}
    /\ pc = [u \in Users |-> "loggedOut"]
    /\ userPassword = [u \in Users |-> 1]
    /\ storedMasterKey = [u \in Users |-> Null]
    /\ privateKey = [u \in Users |-> Null]
    /\ publicKey = [u \in Users |-> Null]
    /\ chatKeys = [u \in Users |-> {}]
    /\ currentChatId = [u \in Users |-> NoChat]
    /\ frame = [u \in Users |-> NoFrame]
    /\ generated = [u \in Users |-> 0]
    /\ localStorage = [u \in Users |-> {}]
    /\ rooms = [u \in Users |-> {}]
    /\ inbox = [u \in Users |-> {}]
    /\ displayed = [u \in Users |-> {}]
    /\ sockets = [s \in SocketIds |-> NoSocket]
    /\ connectedUsers = [u \in Users |-> {}]
    /\ userStatus = [u \in Users |-> "offline"]
    /\ directRequest = [u \in Users |-> "idle"]

UploadKeys ==
    /\ \E u \in Users : \E pk \in PublicKeyInputs(u) : \E mk \in MasterKeyInputs(u) :
           PostKeys(u, pk, mk, encryptRSAPrivateKey(PrivateKey(pk.owner, pk.id),
                                                    MasterKey(u, 1)))
    /\ UNCHANGED <<clientVars, backendVars>>

FetchKeys ==
    /\ \E caller \in Users : \E u \in Users : GetKeys(caller, u)
    /\ UNCHANGED <<clientVars, backendVars>>

UpdateMasterKey ==
    /\ \E u \in Users : \E mk \in MasterKeyInputs(u) : PatchKeys(u, mk)
    /\ UNCHANGED <<clientVars, backendVars>>

UploadPublicKey ==
    /\ \E u \in Users : \E pk \in PublicKeyInputs(u) : PostPublicKey(u, pk)
    /\ UNCHANGED <<clientVars, backendVars>>

FetchPublicKey ==
    /\ \E caller \in Users : \E u \in Users : GetPublicKey(caller, u)
    /\ UNCHANGED <<clientVars, backendVars>>

AuthSync ==
    /\ \E u \in Users : \E has_keys \in BOOLEAN : PostAuthSync(u, has_keys)
    /\ UNCHANGED <<clientVars, backendVars>>

ShareKey ==
    /\ \E u \in Users : \E c \in ChatIds : \E r \in Users :
           \E ek \in ChatKeyInputs(u, r) : PostShareKey(u, c, r, ek)
    /\ UNCHANGED <<clientVars, backendVars>>

FetchMyKey ==
    /\ \E u \in Users : \E c \in ChatIds : GetMyKey(u, c)
    /\ UNCHANGED <<clientVars, backendVars>>

FetchChatKeys ==
    /\ \E u \in Users : \E c \in ChatIds : GetChatKeys(u, c)
    /\ UNCHANGED <<clientVars, backendVars>>

ShareKeyOverSocket ==
    /\ \E u \in Users : \E c \in ChatIds : \E r \in Users :
           \E ek \in ChatKeyInputs(u, r) : SocketKeyShare(u, c, r, ek)
    /\ UNCHANGED <<clientVars, backendVars>>

Next ==
    \/ UploadKeys
    \/ FetchKeys
    \/ UpdateMasterKey
    \/ UploadPublicKey
    \/ FetchPublicKey
    \/ AuthSync
    \/ ShareKey
    \/ FetchMyKey
    \/ FetchChatKeys
    \/ ShareKeyOverSocket

Spec == Init /\ [][Next]_vars

-----------------------------------------------------------------------------
(* The browser client (app.js, crypto-helper.js), one device per user.  A   *)
(* handler is cut at its requests: each step is the request, applied by the *)
(* route above, with the local computation around it.  wire collects every  *)
(* key or content value a step puts into a request.  pc tells where the     *)
(* page stands: "new" (no account), "signupKeys" (handleSignup between its  *)
(* two requests), "loggedOut" (auth form, no session), "authForm" (auth     *)
(* form, the provider's session is still there), "ready" (chat pane,        *)
(* socket connected) and the steps of handleStartChat.                      *)

\* the other user, the one a direct chat is started with
Other(u) == CHOOSE r \in Users : r # u

\* Map.has / localStorage.getItem over entries chatId -> key
hasChatKey(keys, chatId) == \E e \in keys : e.chatId = chatId

keyOf(keys, chatId) == (CHOOSE e \in keys : e.chatId = chatId).key

\* cryptoHelper.loadChatKey: memory first, then localStorage
loadChatKey(keys, stored, chatId) ==
    IF hasChatKey(keys, chatId) THEN keyOf(keys, chatId)
    ELSE IF hasChatKey(stored, chatId) THEN keyOf(stored, chatId)
    ELSE Null

\* this.chatKeys.set(chatId, chatKey) / localStorage.setItem('chatKey_' + chatId)
setChatKey(keys, chatId, chatKey) ==
    {e \in keys : e.chatId # chatId} \cup {[chatId |-> chatId, key |-> chatKey]}

\* cryptoHelper.chatKeys after loadChatKey: a key found in localStorage is
\* put into memory
loadedChatKeys(keys, stored, chatId) ==
    IF loadChatKey(keys, stored, chatId) = Null THEN keys
    ELSE setChatKey(keys, chatId, loadChatKey(keys, stored, chatId))

\* decryptChatKey: Null stands for the error it throws
decryptChatKey(encryptedKey, rsaPrivateKey) == rsaDecrypt(encryptedKey, rsaPrivateKey)

\* chat_keys.find(key => key.recipient_id === currentUser.id)
ourKey(response, userId) ==
    IF response.status = 200
    THEN {r \in response.chat_keys : r.recipient_id = userId}
    ELSE {}

\* the listing's record for the caller, decrypted
ourChatKey(response, userId, rsaPrivateKey) ==
    IF ourKey(response, userId) # {}
    THEN decryptChatKey((CHOOSE r \in ourKey(response, userId) : TRUE).encrypted_chat_key,
                        rsaPrivateKey)
    ELSE Null

\* the connection handler of the socket server: the rooms of the user's chats
joinRooms(ch, userId) == {c.id : c \in {x \in ch : userId \in x.participants}}

\* handleSignup, steps 1-5: master key, auth credential, account, profile
SignupAccount(u) ==
    /\ pc[u] = "new"
    /\ LET pw == Password(u, userPassword[u])
           authPassword == deriveAuthPassword(pw, u)
       IN  /\ auth' = auth \cup {Account(u, authPassword)}
           /\ wire' = wire \cup {authPassword}
    /\ GetAuthMe(u)
    /\ frame' = [frame EXCEPT ![u] = MasterKey(u, 1)]
    /\ pc' = [pc EXCEPT ![u] = "signupKeys"]
    /\ UNCHANGED <<userPassword, storedMasterKey, privateKey, publicKey, chatKeys,
                   currentChatId, generated, localStorage, rooms, inbox, displayed>>
    /\ UNCHANGED backendVars

\* handleSignup, steps 6-10: key pair, wrapped private key, IndexedDB, upload,
\* initializeChat
SignupKeys(u) ==
    /\ pc[u] = "signupKeys"
    /\ LET encryptedMasterKey ==
               encryptMasterKeyWithPassword(frame[u], Password(u, userPassword[u]), u)
           encryptedRSAPrivateKey == encryptRSAPrivateKey(PrivateKey(u, 1), frame[u])
       IN  /\ PostKeys(u, PublicKey(u, 1), encryptedMasterKey, encryptedRSAPrivateKey)
           /\ wire' = wire \cup {PublicKey(u, 1), encryptedMasterKey, encryptedRSAPrivateKey}
    /\ privateKey' = [privateKey EXCEPT ![u] = PrivateKey(u, 1)]
    /\ publicKey' = [publicKey EXCEPT ![u] = PublicKey(u, 1)]
    /\ storedMasterKey' = [storedMasterKey EXCEPT ![u] = frame[u]]
    /\ frame' = [frame EXCEPT ![u] = Null]
    /\ rooms' = [rooms EXCEPT ![u] = joinRooms(chats, u)]
    /\ pc' = [pc EXCEPT ![u] = "ready"]
    /\ UNCHANGED <<auth, userPassword, chatKeys, currentChatId, generated, localStorage,
                   inbox, displayed>>
    /\ UNCHANGED backendVars

\* handleSignup, steps 6-9 when the upload request does not come back ok:
\* the handler throws into its catch, which shows the error
SignupKeysFails(u) ==
    /\ pc[u] = "signupKeys"
    /\ wire' = wire \cup {PublicKey(u, 1),
                          encryptMasterKeyWithPassword(frame[u],
                                                       Password(u, userPassword[u]), u),
                          encryptRSAPrivateKey(PrivateKey(u, 1), frame[u])}
    /\ privateKey' = [privateKey EXCEPT ![u] = PrivateKey(u, 1)]
    /\ publicKey' = [publicKey EXCEPT ![u] = PublicKey(u, 1)]
    /\ storedMasterKey' = [storedMasterKey EXCEPT ![u] = frame[u]]
    /\ frame' = [frame EXCEPT ![u] = Null]
    /\ pc' = [pc EXCEPT ![u] = "authForm"]
    /\ UNCHANGED <<serverVars, auth, userPassword, chatKeys, currentChatId, generated,
                   localStorage, rooms, inbox, displayed>>
    /\ UNCHANGED backendVars

\* handleLogout: socket.disconnect, signOut, clearKeys
Logout(u) ==
    /\ pc[u] = "ready"
    /\ privateKey' = [privateKey EXCEPT ![u] = Null]
    /\ publicKey' = [publicKey EXCEPT ![u] = Null]
    /\ chatKeys' = [chatKeys EXCEPT ![u] = {}]
    /\ localStorage' = [localStorage EXCEPT ![u] = {}]
    /\ currentChatId' = [currentChatId EXCEPT ![u] = NoChat]
    /\ rooms' = [rooms EXCEPT ![u] = {}]
    /\ inbox' = [inbox EXCEPT ![u] = {}]
    /\ pc' = [pc EXCEPT ![u] = "loggedOut"]
    /\ UNCHANGED <<serverVars, auth, wire, userPassword, storedMasterKey, frame,
                   generated, displayed>>
    /\ UNCHANGED backendVars

\* variant: a login that answers a failed decryption with a fresh master key
\* and key pair
loginKeysFresh(stored, keys, pw) ==
    LET fromPassword == decryptMasterKeyWithPassword(keys.encrypted_master_key, pw)
        rsa == decryptRSAPrivateKey(keys.encrypted_rsa_private_key,
                                    IF stored = Null THEN fromPassword ELSE stored)
    IN  IF rsa # Null
        THEN [ok |-> TRUE,
              storedMasterKey |-> IF stored = Null THEN fromPassword ELSE stored,
              privateKey |-> rsa]
        ELSE [ok |-> TRUE,
              storedMasterKey |-> MasterKey(keys.user_id, MaxGen + 1),
              privateKey |-> PrivateKey(keys.user_id, MaxGen + 1)]

\* handleLogin after the keys are downloaded: what the device ends up holding.
\* stored is the master key in IndexedDB, keys the downloaded row, pw the
\* typed password; ok is FALSE when the handler throws.
loginKeys(stored, keys, pw) ==
    LET fromPassword == decryptMasterKeyWithPassword(keys.encrypted_master_key, pw)
        slow(kept) ==
            IF fromPassword = Null
            THEN [ok |-> FALSE, storedMasterKey |-> kept, privateKey |-> Null]
            ELSE LET rsa == decryptRSAPrivateKey(keys.encrypted_rsa_private_key, fromPassword)
                 IN  [ok |-> rsa # Null, storedMasterKey |-> fromPassword, privateKey |-> rsa]
    IN  IF stored = Null
        THEN slow(Null)
        ELSE LET rsa == decryptRSAPrivateKey(keys.encrypted_rsa_private_key, stored)
             IN  IF rsa # Null
                 THEN [ok |-> TRUE, storedMasterKey |-> stored, privateKey |-> rsa]
                 ELSE slow(Null)

\* variant: a login that downloads the keys whatever the provider answered
LoginWithoutAuthentication(u, pw) ==
    LET authPassword == deriveAuthPassword(pw, u)
        response == GetKeysResponse(user_keys, u, u)
        downloaded == response.status = 200
        keys == CHOOSE k \in getUserKeys(user_keys, u) : TRUE
        result == loginKeys(storedMasterKey[u], keys, pw)
        ok == downloaded /\ result.ok
    IN  /\ pc[u] \in {"loggedOut", "authForm"}
        /\ wire' = wire \cup {authPassword}
        /\ GetKeys(u, u)
        /\ storedMasterKey' = IF downloaded
                               THEN [storedMasterKey EXCEPT ![u] = result.storedMasterKey]
                               ELSE storedMasterKey
        /\ privateKey' = IF ok THEN [privateKey EXCEPT ![u] = result.privateKey]
                          ELSE privateKey
        /\ publicKey' = IF ok THEN [publicKey EXCEPT ![u] = keys.public_key]
                         ELSE publicKey
        /\ rooms' = IF ok THEN [rooms EXCEPT ![u] = joinRooms(chats, u)] ELSE rooms
        /\ pc' = IF ok THEN [pc EXCEPT ![u] = "ready"]
                 ELSE [pc EXCEPT ![u] = "authForm"]
        /\ UNCHANGED <<auth, userPassword, chatKeys, currentChatId, frame, generated,
                       localStorage, inbox, displayed>>
        /\ UNCHANGED backendVars

\* handleLogin with the typed password pw
Login(u, pw) ==
    LET authPassword == deriveAuthPassword(pw, u)
        signedIn == Account(u, authPassword) \in auth
        response == GetKeysResponse(user_keys, u, u)
        downloaded == signedIn /\ response.status = 200
        keys == CHOOSE k \in getUserKeys(user_keys, u) : TRUE
        result == loginKeys(storedMasterKey[u], keys, pw)
        ok == downloaded /\ result.ok
    IN  /\ pc[u] \in {"loggedOut", "authForm"}
        /\ wire' = wire \cup {authPassword}
        /\ IF signedIn THEN GetKeys(u, u) ELSE UNCHANGED serverVars
        /\ storedMasterKey' = IF downloaded
                               THEN [storedMasterKey EXCEPT ![u] = result.storedMasterKey]
                               ELSE storedMasterKey
        /\ privateKey' = IF ok THEN [privateKey EXCEPT ![u] = result.privateKey]
                          ELSE privateKey
        /\ publicKey' = IF ok THEN [publicKey EXCEPT ![u] = keys.public_key]
                         ELSE publicKey
        /\ rooms' = IF ok THEN [rooms EXCEPT ![u] = joinRooms(chats, u)] ELSE rooms
        /\ pc' = IF ok THEN [pc EXCEPT ![u] = "ready"]
                 ELSE IF signedIn THEN [pc EXCEPT ![u] = "authForm"]
                 ELSE pc
        /\ UNCHANGED <<auth, userPassword, chatKeys, currentChatId, frame, generated,
                       localStorage, inbox, displayed>>
        /\ UNCHANGED backendVars

\* the page is loaded again while the provider holds a session:
\* handleExistingSession.  What the page held in memory is gone, which ends
\* any handler that was in progress.
RestoreSession(u) ==
    LET masterKey == storedMasterKey[u]
        response == GetKeysResponse(user_keys, u, u)
        keys == CHOOSE k \in getUserKeys(user_keys, u) : TRUE
        rsa == decryptRSAPrivateKey(keys.encrypted_rsa_private_key, masterKey)
        restored == masterKey # Null /\ response.status = 200 /\ rsa # Null
    IN  /\ pc[u] \notin {"new", "loggedOut"}
        /\ IF masterKey = Null THEN UNCHANGED serverVars ELSE GetKeys(u, u)
        /\ privateKey' = [privateKey EXCEPT ![u] = IF restored THEN rsa ELSE Null]
        /\ publicKey' = [publicKey EXCEPT ![u] = IF restored THEN keys.public_key ELSE Null]
        /\ chatKeys' = [chatKeys EXCEPT ![u] = {}]
        /\ currentChatId' = [currentChatId EXCEPT ![u] = NoChat]
        /\ frame' = [frame EXCEPT ![u] = Null]
        /\ rooms' = [rooms EXCEPT ![u] = IF restored THEN joinRooms(chats, u) ELSE {}]
        /\ inbox' = [inbox EXCEPT ![u] = {}]
        /\ displayed' = [displayed EXCEPT ![u] = {}]
        /\ pc' = [pc EXCEPT ![u] = IF restored THEN "ready"
                                   ELSE IF masterKey = Null THEN "authForm"
                                   ELSE "loggedOut"]
        /\ UNCHANGED <<auth, wire, userPassword, storedMasterKey, generated, localStorage>>
        /\ UNCHANGED backendVars

\* another device of the account uploads a fresh set of account keys
\* (POST /api/keys), wrapped under the user's password
UploadKeysElsewhere(u) ==
    LET g == (CHOOSE k \in getUserKeys(user_keys, u) : TRUE).public_key.id + 1
        encryptedMasterKey ==
            encryptMasterKeyWithPassword(MasterKey(u, g), Password(u, userPassword[u]), u)
        encryptedRSAPrivateKey == encryptRSAPrivateKey(PrivateKey(u, g), MasterKey(u, g))
    IN  /\ getUserKeys(user_keys, u) # {}
        /\ g <= MaxGen
        /\ PostKeys(u, PublicKey(u, g), encryptedMasterKey, encryptedRSAPrivateKey)
        /\ wire' = wire \cup {PublicKey(u, g), encryptedMasterKey, encryptedRSAPrivateKey}
        /\ UNCHANGED <<auth, pc, userPassword, storedMasterKey, privateKey, publicKey,
                       chatKeys, currentChatId, frame, generated, localStorage, rooms,
                       inbox, displayed>>
        /\ UNCHANGED backendVars

\* password change: re-wrap the master key of the device under the new
\* password and upload only the new wrapped master key (PATCH /api/keys)
ChangePassword(u) ==
    /\ pc[u] = "ready"
    /\ userPassword[u] < MaxPw
    /\ storedMasterKey[u] # Null
    /\ LET encryptedMasterKey ==
               encryptMasterKeyWithPassword(storedMasterKey[u],
                                            Password(u, userPassword[u] + 1), u)
       IN  /\ PatchKeys(u, encryptedMasterKey)
           /\ wire' = wire \cup {encryptedMasterKey}
    /\ userPassword' = [userPassword EXCEPT ![u] = userPassword[u] + 1]
    /\ UNCHANGED <<auth, pc, storedMasterKey, privateKey, publicKey, chatKeys,
                   currentChatId, frame, generated, localStorage, rooms, inbox, displayed>>
    /\ UNCHANGED backendVars

\* handleStartChat: POST /api/chats/direct/:recipientId
StartChat(u) ==
    LET recipientId == Other(u)
        ok == DirectChatStatus(users, u, recipientId) = 200
    IN  /\ pc[u] = "ready"
        /\ PostDirectChat(u, recipientId)
        /\ currentChatId' =
               IF ok
               THEN [currentChatId EXCEPT
                        ![u] = (CHOOSE c \in getDirectChat(chats', u, recipientId) : TRUE).id]
               ELSE currentChatId
        /\ pc' = IF ok THEN [pc EXCEPT ![u] = "startChatKeys"] ELSE pc
        /\ UNCHANGED <<auth, wire, userPassword, storedMasterKey, privateKey, publicKey,
                       chatKeys, frame, generated, localStorage, rooms, inbox, displayed>>
        /\ UNCHANGED backendVars

\* handleStartChat: loadChatKey, else GET /api/chats/:chatId/keys and
\* decryptChatKey, else generateChatKey
StartChatKeys(u) ==
    LET chatId == currentChatId[u]
        local == loadChatKey(chatKeys[u], localStorage[u], chatId)
        fetched == ourChatKey(GetChatKeysResponse(chats, chat_keys, u, chatId), u,
                              privateKey[u])
        fresh == ChatKey(u, generated[u] + 1)
    IN  /\ pc[u] = "startChatKeys"
        /\ IF local # Null
           THEN /\ UNCHANGED <<serverVars, localStorage, frame, generated>>
                /\ chatKeys' = [chatKeys EXCEPT ![u] = setChatKey(@, chatId, local)]
                /\ pc' = [pc EXCEPT ![u] = "startChatHistory"]
           ELSE /\ GetChatKeys(u, chatId)
                /\ IF fetched # Null
                   THEN /\ chatKeys' = [chatKeys EXCEPT ![u] = setChatKey(@, chatId, fetched)]
                        /\ localStorage' =
                               [localStorage EXCEPT ![u] = setChatKey(@, chatId, fetched)]
                        /\ pc' = [pc EXCEPT ![u] = "startChatHistory"]
                        /\ UNCHANGED <<frame, generated>>
                   ELSE /\ generated[u] < MaxChatKey
                        /\ chatKeys' = [chatKeys EXCEPT ![u] = setChatKey(@, chatId, fresh)]
                        /\ localStorage' =
                               [localStorage EXCEPT ![u] = setChatKey(@, chatId, fresh)]
                        /\ frame' = [frame EXCEPT ![u] = fresh]
                        /\ generated' = [generated EXCEPT ![u] = @ + 1]
                        /\ pc' = [pc EXCEPT ![u] = "startChatShareSelf"]
        /\ UNCHANGED <<auth, wire, userPassword, storedMasterKey, privateKey, publicKey,
                       currentChatId, rooms, inbox, displayed>>
        /\ UNCHANGED backendVars

\* handleStartChat: share-key with recipient_id = currentUser.id
StartChatShareSelf(u) ==
    LET myEncryptedChatKey == encryptChatKey(frame[u], publicKey[u])
    IN  /\ pc[u] = "startChatShareSelf"
        /\ PostShareKey(u, currentChatId[u], u, myEncryptedChatKey)
        /\ wire' = wire \cup {myEncryptedChatKey}
        /\ pc' = [pc EXCEPT ![u] = "startChatPublicKey"]
        /\ UNCHANGED <<auth, userPassword, storedMasterKey, privateKey, publicKey,
                       chatKeys, currentChatId, frame, generated, localStorage, rooms,
                       inbox, displayed>>
        /\ UNCHANGED backendVars

\* handleStartChat: GET /api/users/:recipientId/public-key, encryptChatKey
StartChatPublicKey(u) ==
    LET response == GetPublicKeyResponse(user_keys, u, Other(u))
        public_key == CHOOSE t \in response.terms : TRUE
    IN  /\ pc[u] = "startChatPublicKey"
        /\ GetPublicKey(u, Other(u))
        /\ IF response.status = 200
           THEN /\ frame' = [frame EXCEPT ![u] = encryptChatKey(@, public_key)]
                /\ pc' = [pc EXCEPT ![u] = "startChatShareRecipient"]
           ELSE /\ frame' = [frame EXCEPT ![u] = Null]
                /\ pc' = [pc EXCEPT ![u] = "ready"]
        /\ UNCHANGED <<auth, wire, userPassword, storedMasterKey, privateKey, publicKey,
                       chatKeys, currentChatId, generated, localStorage, rooms, inbox,
                       displayed>>
        /\ UNCHANGED backendVars

\* handleStartChat: share-key with recipient_id = recipientId
StartChatShareRecipient(u) ==
    /\ pc[u] = "startChatShareRecipient"
    /\ PostShareKey(u, currentChatId[u], Other(u), frame[u])
    /\ wire' = wire \cup {frame[u]}
    /\ frame' = [frame EXCEPT ![u] = Null]
    /\ pc' = [pc EXCEPT ![u] = "startChatHistory"]
    /\ UNCHANGED <<auth, userPassword, storedMasterKey, privateKey, publicKey,
                   chatKeys, currentChatId, generated, localStorage, rooms, inbox,
                   displayed>>
    /\ UNCHANGED backendVars

\* the rows of a batch that do not decrypt under the key held
failing(rows, chatKey) ==
    {m \in rows : \/ chatKey = Null
                  \/ decryptMessage(m.encrypted_content, m.iv, chatKey) = Null}

\* the plaintexts of the rows that decrypt
plaintexts(rows, chatKey) ==
    {decryptMessage(m.encrypted_content, m.iv, chatKey) : m \in rows \ failing(rows, chatKey)}

\* the placeholder loadMessageHistory shows for a message it cannot decrypt
Undecryptable(m) == [kind |-> "undecryptable", id |-> m.id]

\* the error displayReceivedMessage shows in the pane
CannotDecrypt == [kind |-> "cannotDecrypt"]

\* loadMessageHistory without the recursion: every failing message gets the
\* placeholder
historyPassWithoutRetry(rows, chatKey, ours, retryAttempt) ==
    LET bad == failing(rows, chatKey)
    IN  [chatKey |-> chatKey,
         shown |-> plaintexts(rows, chatKey) \cup {Undecryptable(m) : m \in bad},
         fetched |-> bad # {}, passes |-> 1,
         refetches |-> IF bad = {} THEN 0 ELSE 1]

\* loadMessageHistory from the decryption loop on, with the key held and
\* retryAttempt 0 or 1.  ours is the key of the caller's record in the
\* listing, Null when there is none or it does not decrypt.  On the first
\* failing message the listing is fetched; with a key from it the history is
\* loaded again, and the call with retryAttempt 2 returns at once, so that the
\* loop of attempt 1 ends at its first failing message.
RECURSIVE historyPass(_, _, _, _)
historyPass(rows, chatKey, ours, retryAttempt) ==
    LET bad == failing(rows, chatKey)
        first == CHOOSE m \in bad : \A n \in bad : m.id <= n.id
    IN  IF bad = {}
        THEN [chatKey |-> chatKey, shown |-> plaintexts(rows, chatKey), fetched |-> FALSE,
              passes |-> 1, refetches |-> 0]
        ELSE IF ours = Null
        THEN [chatKey |-> chatKey,
              shown |-> plaintexts(rows, chatKey) \cup {Undecryptable(m) : m \in bad},
              fetched |-> TRUE, passes |-> 1, refetches |-> 1]
        ELSE IF retryAttempt = 0
        THEN [historyPass(rows, ours, ours, 1) EXCEPT !.fetched = TRUE,
                                                      !.passes = @ + 1,
                                                      !.refetches = @ + 1]
        ELSE [chatKey |-> ours,
              shown |-> plaintexts({m \in rows : m.id < first.id}, chatKey),
              fetched |-> TRUE, passes |-> 1, refetches |-> 1]

\* loadMessageHistory(chatId): the key the device holds when it returns, what
\* the pane shows, and whether the listing was fetched.  local is the key
\* loadChatKey finds, found tells that the listing has a record for the caller
loadMessageHistory(local, found, ours, rows) ==
    IF local = Null /\ found /\ ours = Null
    THEN [chatKey |-> Null, shown |-> {}, fetched |-> TRUE, passes |-> 0, refetches |-> 0]
    ELSE [historyPass(rows, IF local = Null THEN ours ELSE local, ours, 0)
              EXCEPT !.fetched = @ \/ local = Null]

\* loadMessageHistory(currentChatId) on u's device: with the key it holds,
\* the record for u in the listing and the chat's stored messages
historyOf(u) ==
    LET chatId == currentChatId[u]
        keysResponse == GetChatKeysResponse(chats, chat_keys, u, chatId)
    IN  loadMessageHistory(loadChatKey(chatKeys[u], localStorage[u], chatId),
                           ourKey(keysResponse, u) # {},
                           ourChatKey(keysResponse, u, privateKey[u]),
                           GetMessagesBody(chats, messages, u, chatId))

\* handleStartChat: loadMessageHistory(currentChatId).  Its requests only
\* read; they are taken together as one step.  resp records the listing
\* when the handler fetched it, the messages otherwise.
StartChatHistory(u) ==
    LET chatId == currentChatId[u]
        keysResponse == GetChatKeysResponse(chats, chat_keys, u, chatId)
        messagesResponse == GetMessagesResponse(chats, messages, u, chatId)
        history == historyOf(u)
    IN  /\ pc[u] = "startChatHistory"
        /\ resp' = Served(IF history.fetched THEN keysResponse ELSE messagesResponse,
                          chat_keys)
        /\ chatKeys' = IF history.chatKey # Null
                        THEN [chatKeys EXCEPT ![u] = setChatKey(@, chatId, history.chatKey)]
                        ELSE chatKeys
        /\ localStorage' =
               IF history.chatKey # Null
               THEN [localStorage EXCEPT ![u] = setChatKey(@, chatId, history.chatKey)]
               ELSE localStorage
        /\ displayed' = [displayed EXCEPT ![u] = history.shown]
        /\ pc' = [pc EXCEPT ![u] = "ready"]
        /\ UNCHANGED <<user_keys, chat_keys, chats, messages, users, auth, wire,
                       userPassword, storedMasterKey, privateKey, publicKey,
                       currentChatId, frame, generated, rooms, inbox>>
        /\ UNCHANGED backendVars

\* sendMessage: encryptMessage, displaySentMessage, socket.emit('message:send');
\* the server's broadcast reaches the sockets that are in the chat's room
SendMessageUpTo(u, bound) ==
    LET chatId == currentChatId[u]
        chatKey == loadChatKey(chatKeys[u], localStorage[u], chatId)
        message == Message(u, Cardinality(messages) + 1)
        sent == encryptMessage(message, chatKey)
    IN  /\ pc[u] = "ready"
        /\ chatId # NoChat
        /\ chatKey # Null
        /\ Cardinality(messages) < bound
        /\ SocketMessageSend(u, chatId, sent.encrypted, sent.iv)
        /\ inbox' = [r \in Users |->
                        IF chatId \in rooms[r]
                        THEN inbox[r] \cup {e \in resp'.emits : e.to = chatId}
                        ELSE inbox[r]]
        /\ chatKeys' = [chatKeys EXCEPT
                           ![u] = loadedChatKeys(@, localStorage[u], chatId)]
        /\ displayed' = [displayed EXCEPT ![u] = @ \cup {message}]
        /\ wire' = wire \cup {sent.encrypted, sent.iv}
        /\ UNCHANGED <<auth, pc, userPassword, storedMasterKey, privateKey, publicKey,
                       currentChatId, frame, generated, localStorage, rooms>>
        /\ UNCHANGED backendVars

SendMessage(u) == SendMessageUpTo(u, MaxMsg)

\* displayReceivedMessage without its catch block: a failure shows nothing
ReceiveMessageUncaught(u, data) ==
    LET chatId == data.chatId
        held == hasChatKey(chatKeys[u], chatId)
        response == GetMyKeyResponse(chats, chat_keys, u, chatId)
        fetched == IF response.status = 200
                   THEN decryptChatKey(CHOOSE t \in response.terms : TRUE, privateKey[u])
                   ELSE Null
        chatKey == IF held THEN keyOf(chatKeys[u], chatId) ELSE fetched
        plaintext == IF chatKey = Null THEN Null
                     ELSE decryptMessage(data.content, data.iv, chatKey)
    IN  /\ data \in inbox[u]
        /\ inbox' = [inbox EXCEPT ![u] = @ \ {data}]
        /\ IF data.from = u
           THEN UNCHANGED <<serverVars, chatKeys, localStorage, currentChatId, displayed>>
           ELSE /\ currentChatId' = IF currentChatId[u] = NoChat
                                     THEN [currentChatId EXCEPT ![u] = chatId]
                                     ELSE currentChatId
                /\ IF held THEN UNCHANGED serverVars ELSE GetMyKey(u, chatId)
                /\ chatKeys' = IF ~held /\ fetched # Null
                                THEN [chatKeys EXCEPT ![u] = setChatKey(@, chatId, fetched)]
                                ELSE chatKeys
                /\ localStorage' =
                       IF ~held /\ fetched # Null
                       THEN [localStorage EXCEPT ![u] = setChatKey(@, chatId, fetched)]
                       ELSE localStorage
                /\ displayed' = [displayed EXCEPT
                                    ![u] = @ \cup (IF plaintext = Null THEN {}
                                                   ELSE {plaintext})]
        /\ UNCHANGED <<auth, wire, pc, userPassword, storedMasterKey, privateKey,
                       publicKey, frame, generated, rooms>>
        /\ UNCHANGED backendVars

\* socket.on('message:receive') with displayReceivedMessage: the chat key
\* from memory, else GET /api/chats/:chatId/my-key and decryptChatKey
ReceiveMessage(u, data) ==
    LET chatId == data.chatId
        held == hasChatKey(chatKeys[u], chatId)
        response == GetMyKeyResponse(chats, chat_keys, u, chatId)
        fetched == IF response.status = 200
                   THEN decryptChatKey(CHOOSE t \in response.terms : TRUE, privateKey[u])
                   ELSE Null
        chatKey == IF held THEN keyOf(chatKeys[u], chatId) ELSE fetched
        plaintext == IF chatKey = Null THEN Null
                     ELSE decryptMessage(data.content, data.iv, chatKey)
    IN  /\ data \in inbox[u]
        /\ inbox' = [inbox EXCEPT ![u] = @ \ {data}]
        /\ IF data.from = u
           THEN UNCHANGED <<serverVars, chatKeys, localStorage, currentChatId, displayed>>
           ELSE /\ currentChatId' = IF currentChatId[u] = NoChat
                                     THEN [currentChatId EXCEPT ![u] = chatId]
                                     ELSE currentChatId
                /\ IF held THEN UNCHANGED serverVars ELSE GetMyKey(u, chatId)
                /\ chatKeys' = IF ~held /\ fetched # Null
                                THEN [chatKeys EXCEPT ![u] = setChatKey(@, chatId, fetched)]
                                ELSE chatKeys
                /\ localStorage' =
                       IF ~held /\ fetched # Null
                       THEN [localStorage EXCEPT ![u] = setChatKey(@, chatId, fetched)]
                       ELSE localStorage
                /\ displayed' = [displayed EXCEPT
                                    ![u] = @ \cup {IF plaintext = Null THEN CannotDecrypt
                                                   ELSE plaintext}]
        /\ UNCHANGED <<auth, wire, pc, userPassword, storedMasterKey, privateKey,
                       publicKey, frame, generated, rooms>>
        /\ UNCHANGED backendVars

\* nobody has signed up
InitClient ==
    /\ user_keys = {}
    /\ chat_keys = {}
    /\ chats = {}
    /\ messages = {}
    /\ users = {}
    /\ auth = {}
    /\ resp = NoResponse
    /\ wire = {}
    /\ pc = [u \in Users |-> "new"]
    /\ userPassword = [u \in Users |-> 1]
    /\ storedMasterKey = [u \in Users |-> Null]
    /\ privateKey = [u \in Users |-> Null]
    /\ publicKey = [u \in Users |-> Null]
    /\ chatKeys = [u \in Users |-> {}]
    /\ currentChatId = [u \in Users |-> NoChat]
    /\ frame = [u \in Users |-> NoFrame]
    /\ generated = [u \in Users |-> 0]
    /\ localStorage = [u \in Users |-> {}]
    /\ rooms = [u \in Users |-> {}]
    /\ inbox = [u \in Users |-> {}]
    /\ displayed = [u \in Users |-> {}]
    /\ sockets = [s \in SocketIds |-> NoSocket]
    /\ connectedUsers = [u \in Users |-> {}]
    /\ userStatus = [u \in Users |-> "offline"]
    /\ directRequest = [u \in Users |-> "idle"]

handleSignup == \E u \in Users : SignupAccount(u) \/ SignupKeys(u)

\* handleSignup when its upload fails
signupFails == \E u \in Users : SignupKeysFails(u)

handleLogout == \E u \in Users : Logout(u)

\* the user types the password of the signup or the current one
handleLogin ==
    \E u \in Users : \E p \in {1, userPassword[u]} : Login(u, Password(u, p))

handleExistingSession == \E u \in Users : RestoreSession(u)

uploadKeysElsewhere == \E u \in Users : UploadKeysElsewhere(u)

changePassword == \E u \in Users : ChangePassword(u)

handleStartChat ==
    \E u \in Users :
        \/ StartChat(u)
        \/ StartChatKeys(u)
        \/ StartChatShareSelf(u)
        \/ StartChatPublicKey(u)
        \/ StartChatShareRecipient(u)
        \/ StartChatHistory(u)

sendMessage == \E u \in Users : SendMessage(u)

sendMessages == \E u \in Users : SendMessageUpTo(u, MaxBatch)

displayReceivedMessage == \E u \in Users : \E data \in inbox[u] : ReceiveMessage(u, data)

\* signup, login, password change and chats of the two users
NextClient ==
    \/ handleSignup
    \/ handleLogout
    \/ handleLogin
    \/ changePassword
    \/ handleStartChat
    \/ sendMessage

SpecClient == InitClient /\ [][NextClient]_vars

\* chats with the socket's deliveries and with pages that are loaded again
NextChat ==
    \/ handleSignup
    \/ handleLogout
    \/ handleLogin
    \/ handleExistingSession
    \/ handleStartChat
    \/ sendMessage
    \/ displayReceivedMessage

SpecChat == InitClient /\ [][NextChat]_vars

\* chats of accounts whose keys are replaced from another device
NextRotation ==
    \/ handleSignup
    \/ handleLogout
    \/ handleLogin
    \/ uploadKeysElsewhere
    \/ handleStartChat

SpecRotation == InitClient /\ [][NextRotation]_vars

\* the accounts: signup with its failure, login, session restore, password
\* change and key uploads from another device
NextAccount ==
    \/ handleSignup
    \/ signupFails
    \/ handleLogout
    \/ handleLogin
    \/ handleExistingSession
    \/ changePassword
    \/ uploadKeysElsewhere

SpecAccount == InitClient /\ [][NextAccount]_vars

\* histories of chats whose keys are replaced from another device
NextHistory ==
    \/ handleSignup
    \/ uploadKeysElsewhere
    \/ handleStartChat
    \/ sendMessages
    \/ displayReceivedMessage

SpecHistory == InitClient /\ [][NextHistory]_vars

-----------------------------------------------------------------------------
(* Properties of the directory, checked under Spec.  They read the tables  *)
(* directly and do not go through the model's queries.                     *)

\* the user has a public key on file
HasPublicKey(u) == \E k \in user_keys : k.user_id = u /\ k.public_key # Null

\* the rows of ck the user is the recipient or the sender of
RowsOf(ck, u) == {r \in ck : r.recipient_id = u \/ r.sender_id = u}

\* the participants column of the chat; empty when no such chat
Participants(chatId) == UNION {c.participants : c \in {x \in chats : x.id = chatId}}

\* the rows of chat_keys whose (chat_id, recipient_id) pair has no row after the step
Removed ==
    {r \in chat_keys : ~\E q \in chat_keys' :
                           q.chat_id = r.chat_id /\ q.recipient_id = r.recipient_id}

C4_AccountKeysUploadCleansUp ==
    [][\A u \in Users :
          (resp'.op = "postKeys" /\ resp'.caller = u /\ HasPublicKey(u))
              => RowsOf(chat_keys', u) = {}]_vars

C6_AccountKeysOwnerOnly ==
    /\ (resp.op = "getKeys" /\ resp.caller # resp.target)
           => (resp.status = 403 /\ resp.terms = {})
    /\ (resp.op = "getPublicKey" /\ HasPublicKey(resp.target))
           => /\ resp.status = 200
              /\ resp.terms = {k.public_key : k \in {x \in user_keys : x.user_id = resp.target}}

\* C6 witness: another user asked for an account's keys while wrapped keys were on file
C6_Witness ==
    /\ resp.op = "getKeys"
    /\ resp.caller # resp.target
    /\ \E k \in user_keys : k.user_id = resp.target /\ k.encrypted_master_key # Null

\* the wrapped master key and wrapped private key of the user's row
AccountKeysOf(u) ==
    UNION {{k.encrypted_master_key, k.encrypted_rsa_private_key}
           : k \in {x \in user_keys : x.user_id = u}}

\* the wrapped chat keys of the rows of the chat addressed to the user
AddressedTo(chatId, u) ==
    {r.encrypted_chat_key : r \in {x \in chat_keys : x.chat_id = chatId /\ x.recipient_id = u}}

C8_ShareByParticipantOnly ==
    [][resp'.op \in {"postShareKey", "socketKeyShare"} =>
          /\ \A r \in chat_keys' \ chat_keys :
                 /\ r.sender_id = resp'.caller
                 /\ r.chat_id = resp'.target
                 /\ resp'.caller \in Participants(resp'.target)
          /\ resp'.caller \notin Participants(resp'.target)
                 => (chat_keys' = chat_keys /\ resp'.emits = {})]_vars

\* C8 witness: a user outside an existing chat that has rows has just tried
\* to share a key over the socket
C8_Witness ==
    /\ resp.op = "socketKeyShare"
    /\ resp.caller \notin Participants(resp.target)
    /\ Participants(resp.target) # {}
    /\ \E r \in chat_keys : r.chat_id = resp.target

\* chat_keys holds at most one row per (chat_id, recipient_id)
OneRowPerPair ==
    \A r, q \in chat_keys :
        (r.chat_id = q.chat_id /\ r.recipient_id = q.recipient_id) => r = q

\* a successful share leaves exactly the shared row for its pair and adds a
\* row only when the pair had none
ShareOverwrites ==
    (resp'.op \in {"postShareKey", "socketKeyShare"} /\ resp'.status = 200) =>
        LET u == resp'.caller
            c == resp'.target
        IN  \A r \in Users : \A ek \in ChatKeyInputs(u, r) :
                (PostShareKey(u, c, r, ek) \/ SocketKeyShare(u, c, r, ek))
                    => /\ {q \in chat_keys' : q.chat_id = c /\ q.recipient_id = r}
                              = {ChatKeyRow(c, u, r, ek)}
                       /\ {q \in chat_keys' : ~(q.chat_id = c /\ q.recipient_id = r)}
                              = {q \in chat_keys : ~(q.chat_id = c /\ q.recipient_id = r)}

\* C9: in every reachable state chat_keys holds at most one row per
\* (chat_id, recipient_id), and a share for a pair that already has a row
\* replaces that row by the new wrapped key and sender.
C9_OneRecordPerPair == []OneRowPerPair /\ [][ShareOverwrites]_vars

\* C9 witness: a share has just succeeded for a pair that already had a row
C9_Witness ==
    /\ resp.op = "postShareKey"
    /\ resp.status = 200
    /\ resp.rows_before = Cardinality(chat_keys)
    /\ \E r \in chat_keys : r.chat_id = resp.target /\ r.sender_id = resp.caller
                                /\ r.recipient_id # resp.caller

\* C10: GET /api/chats/:chatId/keys hands rows only to a participant of the
\* chat: a caller outside an existing chat is answered 403 with no row, and a
\* participant is answered 200 with all rows of the chat.
C10_ListOnlyToParticipants ==
    resp.op = "getChatKeys" =>
        /\ resp.chat_keys # {} => resp.caller \in Participants(resp.target)
        /\ (Participants(resp.target) # {} /\ resp.caller \notin Participants(resp.target))
               => (resp.status = 403 /\ resp.chat_keys = {})
        /\ resp.caller \in Participants(resp.target)
               => /\ resp.status = 200
                  /\ resp.chat_keys = {r \in chat_keys : r.chat_id = resp.target}

\* C10 witness: a user outside a chat that has rows has just asked for its listing
C10_Witness ==
    /\ resp.op = "getChatKeys"
    /\ resp.status = 403
    /\ \E r \in chat_keys : r.chat_id = resp.target

-----------------------------------------------------------------------------
(* Properties of the client and the directory together, checked under      *)
(* SpecClient.                                                             *)

\* the private key that belongs to the public key the user has on file
IdentityPrivateKey(u) ==
    LET onFile == {k.public_key : k \in {x \in user_keys : x.user_id = u}}
    IN  IF onFile = {} \/ onFile = {Null} THEN Null
        ELSE LET pk == CHOOSE t \in onFile : TRUE
             IN  PrivateKey(pk.owner, pk.id)

\* the chat key a row yields when its recipient decrypts it
KeyOfRecord(r) == rsaDecrypt(r.encrypted_chat_key, IdentityPrivateKey(r.recipient_id))

\* C1: in every reachable state, for every chat, the rows of chat_keys that
\* are addressed to participants of the chat all decrypt, each with its
\* recipient's private key, to the same chat key; this is to hold for every
\* interleaving of the participants' start-chat handlers.
C1_SameConversationKey ==
    \A r, q \in chat_keys :
        (/\ r.chat_id = q.chat_id
         /\ r.recipient_id \in Participants(r.chat_id)
         /\ q.recipient_id \in Participants(q.chat_id))
            => KeyOfRecord(r) = KeyOfRecord(q)

\* every value the backend or the authentication provider holds or was sent
ServerValues ==
    wire
        \cup {a.password : a \in auth}
        \cup UNION {{k.public_key, k.encrypted_master_key, k.encrypted_rsa_private_key}
                    : k \in user_keys}
        \cup {r.encrypted_chat_key : r \in chat_keys}
        \cup UNION {{m.encrypted_content, m.iv} : m \in messages}
        \cup UNION {r.terms \cup {e.content : e \in r.emits} : r \in {resp}}

\* what the server may see: public keys, the derived auth credential, and
\* ciphertexts with their nonces
PublicKinds ==
    {"publicKey", "authCredential", "wrappedMasterKey", "wrappedPrivateKey",
     "wrappedChatKey", "encryptedMessage", "iv"}

\* C2: over every sequence of signup, login, logout, password change,
\* start-chat and message-send steps, every value in a request, in a table, in
\* a response or in an emitted event is a public key, the derived auth
\* credential or a ciphertext; no password, master key, private key, chat key
\* or message plaintext is among them.
C2_ServerSeesNoSecret == \A t \in ServerValues : t.kind \in PublicKinds

\* C2 witness: both users signed up, a password was changed and the new
\* password used at login, a chat key was shared with both participants and
\* a message was sent
C2_Witness ==
    /\ \A u \in Users : \E k \in user_keys : k.user_id = u
    /\ \E k \in user_keys : k.encrypted_master_key.kid > 1
    /\ \E t \in wire : t.kind = "authCredential" /\ t.id > 1
    /\ \E r, q \in chat_keys : r.chat_id = q.chat_id /\ r.recipient_id # q.recipient_id
    /\ messages # {}

-----------------------------------------------------------------------------
(* Properties of the conversation keys and the messages, checked under     *)
(* SpecChat and SpecRotation.                                              *)

\* the rows of chat_keys of a chat
RecordsOf(chatId) == {r \in chat_keys : r.chat_id = chatId}

\* the key the device holds for the chat, in memory or in localStorage
HeldKey(u, chatId) == loadChatKey(chatKeys[u], localStorage[u], chatId)

\* the step in which a's handleStartChat stores the record for the recipient
SharesWithRecipient(a) ==
    pc[a] = "startChatShareRecipient" /\ pc'[a] = "startChatHistory"

\* the step in which b's handleStartChat settles which key it uses
ResolvesKey(b) ==
    pc[b] = "startChatKeys" /\ pc'[b] \in {"startChatHistory", "startChatShareSelf"}

\* the step in which b's socket handler takes a message of the other user
ReceivesMessage(b) ==
    /\ \E data \in inbox[b] : data.from # b /\ inbox'[b] = inbox[b] \ {data}
    /\ pc'[b] = pc[b]
    /\ displayed'[b] # {} /\ displayed[b] \subseteq displayed'[b]

\* the chat has the two records a stored and b has generated no key
SharedBy(a, chatId) ==
    /\ generated[Other(a)] = 0
    /\ {r.recipient_id : r \in RecordsOf(chatId)} = {a, Other(a)}
    /\ \A r \in RecordsOf(chatId) : r.sender_id = a

\* C11: when both users have signed up and a's handleStartChat generates the
\* key of their new chat while b generates none, then at a's last share the
\* directory holds exactly two records for the chat, one per participant, each
\* wrapping the key a holds; and when b afterwards resolves the key, in
\* handleStartChat or on receiving a message, b ends up holding that same key,
\* in memory and in localStorage, and generates none.
C11_FreshTwoPartyChat ==
    [][\A a \in Users : \A c \in ChatIds :
          /\ (SharesWithRecipient(a) /\ currentChatId[a] = c /\ generated'[Other(a)] = 0)
                => /\ Cardinality({r \in chat_keys' : r.chat_id = c}) = 2
                   /\ {r.recipient_id : r \in {x \in chat_keys' : x.chat_id = c}}
                          = {a, Other(a)}
                   /\ \A r \in {x \in chat_keys' : x.chat_id = c} :
                          rsaDecrypt(r.encrypted_chat_key, PrivateKey(r.recipient_id, 1))
                              = keyOf(chatKeys'[a], c)
          /\ (/\ SharedBy(a, c)
              /\ \/ ResolvesKey(Other(a)) /\ currentChatId[Other(a)] = c
                 \/ ReceivesMessage(Other(a)))
                => /\ generated'[Other(a)] = 0
                   /\ hasChatKey(chatKeys'[Other(a)], c)
                   /\ hasChatKey(localStorage'[Other(a)], c)
                   /\ \A r \in RecordsOf(c) :
                          /\ KeyOfRecord(r) = keyOf(chatKeys'[Other(a)], c)
                          /\ KeyOfRecord(r) = keyOf(localStorage'[Other(a)], c)
      ]_vars

\* C11 witness: the chat has the two records u1 stored, u2 has generated no
\* key, and u2 holds the key of its record after fetching it
C11_Witness ==
    /\ SharedBy("u1", "c1")
    /\ Cardinality(RecordsOf("c1")) = 2
    /\ hasChatKey(chatKeys["u2"], "c1")
    /\ \A r \in RecordsOf("c1") : KeyOfRecord(r) = keyOf(chatKeys["u2"], "c1")
    /\ keyOf(chatKeys["u2"], "c1") = ChatKey("u1", 1)

\* the chat key a ciphertext was produced with
KeyOfCiphertext(encryptedContent) ==
    ChatKey(encryptedContent.kowner, encryptedContent.kid)

\* the step in which u's sendMessage reaches the server
Sends(u) == messages' # messages /\ \A m \in messages' \ messages : m.sender_id = u

\* the step in which b's handleStartChat has loaded the history
LoadsHistory(b) ==
    pc[b] = "startChatHistory" /\ pc'[b] = "ready" /\ currentChatId'[b] = currentChatId[b]

\* the chat's key was distributed by one user and m was encrypted with it
DistributedKeyOf(chatId, encryptedContent) ==
    \E a \in Users :
        /\ SharedBy(a, chatId)
        /\ \A r \in RecordsOf(chatId) : KeyOfRecord(r) = KeyOfCiphertext(encryptedContent)

\* C12: a sent message is stored and relayed with the ciphertext and the
\* nonce the sender produced, stored rows never change, and every event in
\* flight carries the ciphertext and nonce of a stored row; in a chat whose
\* key was distributed by one user, a participant's receive path shows
\* exactly the plaintext of the event it takes, and its history path shows
\* exactly the plaintexts of the chat's stored messages.
C12_MessageRoundTrip ==
    [][/\ messages \subseteq messages'
       /\ \A u \in Users : Sends(u) =>
             LET sent == encryptMessage(Message(u, Cardinality(messages) + 1),
                                        HeldKey(u, currentChatId[u]))
             IN  /\ \A m \in messages' \ messages :
                        /\ m.encrypted_content = sent.encrypted
                        /\ m.iv = sent.iv
                        /\ m.chat_id = currentChatId[u]
                 /\ \A r \in Users : currentChatId[u] \in rooms[r] =>
                        \E data \in inbox'[r] :
                            /\ data.content = sent.encrypted
                            /\ data.iv = sent.iv
                            /\ data.from = u
       /\ \A u \in Users : \A data \in inbox'[u] :
             \E m \in messages' : /\ m.encrypted_content = data.content
                                  /\ m.iv = data.iv
                                  /\ m.sender_id = data.from
                                  /\ m.chat_id = data.chatId
       /\ \A b \in Users : \A data \in inbox[b] :
             (/\ ReceivesMessage(b)
              /\ inbox'[b] = inbox[b] \ {data}
              /\ DistributedKeyOf(data.chatId, data.content))
                => displayed'[b] = displayed[b] \cup
                       {Message(data.content.owner, data.content.id)}
       /\ \A b \in Users :
             (/\ LoadsHistory(b)
              /\ \A m \in getMessages(messages, currentChatId[b]) :
                     DistributedKeyOf(currentChatId[b], m.encrypted_content))
                => displayed'[b] = {Message(m.sender_id, m.id) :
                                       m \in getMessages(messages, currentChatId[b])}
      ]_vars

\* C12 witness: u2 has taken u1's message from the socket, has fetched the
\* key u1 distributed and shows the plaintext
C12_Witness ==
    /\ SharedBy("u1", "c1")
    /\ resp.op = "getMyKey" /\ resp.caller = "u2"
    /\ \E m \in messages : /\ m.sender_id = "u1"
                           /\ m.encrypted_content =
                                  encryptMessage(Message("u1", m.id), ChatKey("u1", 1)).encrypted
                           /\ m.iv = Iv("u1", m.id)
                           /\ Message("u1", m.id) \in displayed["u2"]
    /\ inbox["u2"] = {}
    /\ keyOf(chatKeys["u2"], "c1") = ChatKey("u1", 1)
    /\ pc["u2"] = "ready"

\* the step in which u's handleStartChat, having generated a key, ends: with
\* the record for the recipient stored, or with 'Recipient public key not found'
GeneratingResolveEnds(u) ==
    \/ SharesWithRecipient(u)
    \/ /\ pc[u] = "startChatPublicKey" /\ pc'[u] = "ready"
       /\ currentChatId'[u] = currentChatId[u]

\* C13: whenever a handleStartChat that generated a key has ended, with the
\* last share stored or with an error, every participant of the chat has a
\* record wrapping the generated key.
C13_RecordForEveryParticipant ==
    [][\A u \in Users :
          GeneratingResolveEnds(u) =>
              \A p \in ParticipantsOf(chats, currentChatId[u]) :
                  \E r \in chat_keys' :
                      /\ r.chat_id = currentChatId[u]
                      /\ r.recipient_id = p
                      /\ r.encrypted_chat_key.kind = "wrappedChatKey"
                      /\ r.encrypted_chat_key.owner = u
                      /\ r.encrypted_chat_key.id = generated[u]
      ]_vars

\* the caller's record of the chat unwraps under the private key on the device
UsableRecord(u, chatId) ==
    \E r \in RecordsOf(chatId) :
        r.recipient_id = u /\ rsaDecrypt(r.encrypted_chat_key, privateKey[u]) # Null

\* C14: a key resolution of a device that holds a key for the chat, in memory
\* or in localStorage, does not contact the server, in handleStartChat and on
\* receiving a message; and a device generates a key only when it holds none
\* and the directory has no record for the caller that unwraps.
C14_LocalThenServerThenGenerate ==
    [][\A u \in Users :
          /\ (ResolvesKey(u) /\ HeldKey(u, currentChatId[u]) # Null) => resp' = resp
          /\ \A data \in inbox[u] :
                (/\ ReceivesMessage(u)
                 /\ inbox'[u] = inbox[u] \ {data}
                 /\ HeldKey(u, data.chatId) # Null) => resp' = resp
          /\ generated'[u] # generated[u] =>
                /\ HeldKey(u, currentChatId[u]) = Null
                /\ ~UsableRecord(u, currentChatId[u])
      ]_vars

\* u's handleStartChat is about to fetch the listing, and the record for u
\* in it does not unwrap under the private key on the device
DecryptionFails(u) ==
    /\ pc[u] = "startChatKeys"
    /\ HeldKey(u, currentChatId[u]) = Null
    /\ \E r \in RecordsOf(currentChatId[u]) :
           r.recipient_id = u /\ rsaDecrypt(r.encrypted_chat_key, privateKey[u]) = Null

\* C15: when the caller's record fails to decrypt in handleStartChat, the
\* handler ends with the failure and generates no key in its place.
C15_DecryptionFailureSurfaced ==
    [][\A u \in Users :
          (DecryptionFails(u) /\ pc'[u] \notin {pc[u], "loggedOut"})
              => /\ generated'[u] = generated[u]
                 /\ pc'[u] = "ready"
      ]_vars

\* a step of u's handleStartChat at its key lookup or its history load: the
\* handler's own step, or the page being left or loaded again at that point
LookupStep(u) ==
    pc[u] \in {"startChatKeys", "startChatHistory"} /\ pc'[u] # pc[u]

\* C16: the key lookup of handleStartChat (local hit, fetch of the listing),
\* loadMessageHistory and displayReceivedMessage write nothing to the
\* directory, and neither does leaving the page while one of them is under
\* way: user_keys and chat_keys are the same before and after each such step.
C16_LookupWritesNothing ==
    [][\A u \in Users :
          (LookupStep(u) \/ ReceivesMessage(u))
              => /\ user_keys' = user_keys
                 /\ chat_keys' = chat_keys
      ]_vars

\* C16 witness: u2's handleStartChat has fetched the listing and holds the key
\* of its record; the two records u1 stored are in the directory
C16_Witness ==
    /\ resp.op = "getChatKeys" /\ resp.caller = "u2" /\ resp.status = 200
    /\ pc["u2"] = "startChatHistory"
    /\ generated["u2"] = 0
    /\ HeldKey("u2", "c1") = ChatKey("u1", 1)
    /\ Cardinality(RecordsOf("c1")) = 2
    /\ Cardinality(user_keys) = 2

-----------------------------------------------------------------------------
(* Properties of signup, login and session restore, checked under          *)
(* SpecAccount.                                                            *)

\* the account of u is registered at the authentication provider
Registered(u) == \E a \in auth : a.email = u

\* the directory holds the three keys of u
HasKeyRecord(u) ==
    \E k \in user_keys :
        /\ k.user_id = u
        /\ k.public_key.kind = "publicKey"
        /\ k.encrypted_master_key.kind = "wrappedMasterKey"
        /\ k.encrypted_rsa_private_key.kind = "wrappedPrivateKey"

\* no handleSignup of u is under way and one has been started
SignupEnded(u) == pc[u] \notin {"new", "signupKeys"}

\* C17: once a signup attempt has ended, completed or failed, either the
\* account is registered and the directory holds its public key, wrapped
\* master key and wrapped private key, or the server holds no account, no
\* profile and no key record for it.
C17_SignupAllOrNothing ==
    \A u \in Users :
        SignupEnded(u) =>
            \/ Registered(u) /\ HasKeyRecord(u)
            \/ ~Registered(u) /\ u \notin users /\ getUserKeys(user_keys, u) = {}

\* the step in which handleLogin or handleExistingSession of u, signed in,
\* gets 404 for the account's keys
KeysNotFound(u) ==
    /\ resp' # resp
    /\ resp'.op = "getKeys" /\ resp'.caller = u /\ resp'.target = u
    /\ resp'.status = 404

\* C18: when a signed-in user's download of the account keys answers
\* not-found, at login or at session restore, the handler generates and
\* uploads the keys, so that the directory holds the account's key record
\* when the handler has ended.
C18_PartialSignupRepaired ==
    [][\A u \in Users : (Registered(u) /\ KeysNotFound(u)) => HasKeyRecord(u)']_vars

\* a step of handleLogin of u: the handler ends, or it has asked for the keys
LoginStep(u) ==
    /\ pc[u] \in {"loggedOut", "authForm"}
    /\ \/ pc'[u] # pc[u]
       \/ resp' # resp /\ resp'.op = "getKeys" /\ resp'.caller = u

\* a step of handleExistingSession of u after the page was loaded again
RestoreStep(u) ==
    /\ pc[u] \in {"ready", "signupKeys", "authForm"}
    /\ \/ resp' # resp /\ resp'.op = "getKeys" /\ resp'.caller = u
       \/ /\ pc[u] # "authForm" /\ pc'[u] = "authForm"
          /\ storedMasterKey[u] = Null /\ storedMasterKey'[u] = Null

\* the master keys the wrapped master key on file unwraps to
MasterKeysOnFile(u) ==
    {decryptMasterKeyWithPassword(k.encrypted_master_key, Password(u, p)) :
        k \in getUserKeys(user_keys, u), p \in 1..MaxPw}

\* the private keys the wrapped private key on file unwraps to
PrivateKeysOnFile(u) ==
    {decryptRSAPrivateKey(k.encrypted_rsa_private_key, m) :
        k \in getUserKeys(user_keys, u), m \in MasterKeysOnFile(u) \cup {storedMasterKey[u]}}

CachedKeyFails(u) ==
    /\ storedMasterKey[u] # Null
    /\ \E k \in getUserKeys(user_keys, u) :
           decryptRSAPrivateKey(k.encrypted_rsa_private_key, storedMasterKey[u]) = Null

\* C20: a login in which the decryption with the cached master key fails
\* ends with an error: the user is not logged in and no other key is tried;
\* and a login without cached master key ends logged in only with the master
\* key and the private key the record on file unwraps to.
C20_FailedDecryptionEndsLogin ==
    [][\A u \in Users :
          /\ (LoginStep(u) /\ CachedKeyFails(u))
                => /\ pc'[u] # "ready"
                   /\ privateKey'[u] = privateKey[u]
          /\ (LoginStep(u) /\ storedMasterKey[u] = Null /\ pc'[u] = "ready")
                => /\ storedMasterKey'[u] \in MasterKeysOnFile(u) \ {Null}
                   /\ privateKey'[u] \in PrivateKeysOnFile(u) \ {Null}
      ]_vars

\* the step in which handleLogin or handleExistingSession of u, having
\* downloaded the account's record, ends without the keys: a wrapped record
\* did not unwrap
MismatchEnds(u) ==
    /\ LoginStep(u) \/ RestoreStep(u)
    /\ resp'.op = "getKeys" /\ resp'.caller = u /\ resp'.status = 200
    /\ pc'[u] # "ready"

\* C21: after a login or a session restore that ended with a key mismatch,
\* IndexedDB holds no master key that fails to unwrap the private key on file.
C21_MismatchedMasterKeyPurged ==
    [][\A u \in Users : MismatchEnds(u) => ~CachedKeyFails(u)']_vars

\* the step in which handleLogin of u sends a credential the provider has no
\* account for
AuthenticationFails(u) ==
    /\ pc[u] \in {"loggedOut", "authForm"}
    /\ \E c \in wire' \ wire :
           c.kind = "authCredential" /\ c.owner = u /\ Account(u, c) \notin auth

\* the keys of u are downloaded or the keys on u's device change
KeysTouched(u) ==
    \/ resp' # resp /\ resp'.op = "getKeys" /\ resp'.caller = u
    \/ storedMasterKey'[u] # storedMasterKey[u]
    \/ privateKey'[u] # privateKey[u]
    \/ publicKey'[u] # publicKey[u]

\* C22: a handleLogin whose credential the provider rejects downloads no key
\* record, unwraps nothing and leaves the device as it was; and whenever a
\* login downloads or unwraps keys, a credential of the account's owner that
\* the provider accepts has been sent.
C22_AuthenticationFirst ==
    [][\A u \in Users :
          /\ AuthenticationFails(u)
                => /\ ~KeysTouched(u)
                   /\ resp' = resp
                   /\ pc'[u] = pc[u]
          /\ (pc[u] \in {"loggedOut", "authForm"} /\ KeysTouched(u))
                => \E c \in wire' : c.owner = u /\ Account(u, c) \in auth
      ]_vars

\* C22 witness: u1, registered and with its keys on file, has sent a
\* credential the provider rejected and is still logged out
C22_Witness ==
    /\ HasKeyRecord("u1")
    /\ pc["u1"] = "loggedOut"
    /\ privateKey["u1"] = Null
    /\ \E c \in wire :
           c.kind = "authCredential" /\ c.owner = "u1" /\ Account("u1", c) \notin auth

\* the step in which u's password change is uploaded
PasswordChanges(u) == userPassword'[u] # userPassword[u]

\* the columns of user_keys that a password change does not name
IdentityColumns(uk) ==
    {[user_id |-> k.user_id, public_key |-> k.public_key,
      encrypted_rsa_private_key |-> k.encrypted_rsa_private_key] : k \in uk}

\* C23: a password change of u leaves every chat_keys record, the public key
\* and the wrapped private key of every user and the rows of the other users
\* unchanged, changes no key on the device, and the wrapped master key on
\* file afterwards unwraps with the new password to the master key the device
\* held before.
C23_PasswordChangeFrame ==
    [][\A u \in Users :
          PasswordChanges(u)
              => /\ chat_keys' = chat_keys
                 /\ IdentityColumns(user_keys') = IdentityColumns(user_keys)
                 /\ {k \in user_keys' : k.user_id # u} = {k \in user_keys : k.user_id # u}
                 /\ storedMasterKey' = storedMasterKey
                 /\ privateKey' = privateKey
                 /\ getUserKeys(user_keys', u) # {}
                 /\ \A k \in getUserKeys(user_keys', u) :
                        decryptMasterKeyWithPassword(k.encrypted_master_key,
                                                     Password(u, userPassword'[u]))
                            = storedMasterKey[u]
      ]_vars

\* C23 witness: u1 has changed its password; the record on file unwraps with
\* the new password, and not with the old one, to the master key of the signup
C23_Witness ==
    /\ userPassword["u1"] = 2
    /\ resp.op = "patchKeys" /\ resp.caller = "u1"
    /\ storedMasterKey["u1"] = MasterKey("u1", 1)
    /\ \E k \in getUserKeys(user_keys, "u1") :
           /\ decryptMasterKeyWithPassword(k.encrypted_master_key, Password("u1", 2))
                  = MasterKey("u1", 1)
           /\ decryptMasterKeyWithPassword(k.encrypted_master_key, Password("u1", 1)) = Null
           /\ decryptRSAPrivateKey(k.encrypted_rsa_private_key, MasterKey("u1", 1))
                  = PrivateKey("u1", 1)

-----------------------------------------------------------------------------
(* Further properties of the directory, checked under Spec.                *)

\* the step in which PATCH /api/keys answers u with success
MasterKeyUpdated(u) ==
    /\ resp' # resp
    /\ resp'.op = "patchKeys" /\ resp'.caller = u /\ resp'.status = 200

\* C24: after PATCH /api/keys has answered a user with success, GET
\* /api/keys/:userId answers that user with a wrapped master key that the
\* request wrote, also when the user had no row before.
C24_MasterKeyUpsert ==
    [][\A u \in Users :
          MasterKeyUpdated(u)
              => /\ GetKeysResponse(user_keys', u, u).status = 200
                 /\ \E k \in getUserKeys(user_keys', u) :
                        k.encrypted_master_key \in MasterKeyInputs(u)
      ]_vars

\* the rows of user_keys of a user
KeyRowsOf(uk, u) == {k \in uk : k.user_id = u}

\* C25: user_keys holds at most one row per user id, and uploading the same
\* account keys twice leaves what uploading them once leaves: one row for the
\* user, made of the uploaded keys, and the other users' rows as they were.
C25_UploadIdempotent ==
    /\ \A u \in Users : Cardinality(KeyRowsOf(user_keys, u)) <= 1
    /\ \A u \in Users : \A pk \in PublicKeyInputs(u) : \A mk \in MasterKeyInputs(u) :
          LET rk == encryptRSAPrivateKey(PrivateKey(pk.owner, pk.id), MasterKey(u, 1))
              once == uploadUserKeys(user_keys, u, pk, mk, rk)
              twice == uploadUserKeys(once, u, pk, mk, rk)
          IN  /\ twice = once
              /\ KeyRowsOf(twice, u) = {UserKey(u, pk, mk, rk)}
              /\ twice \ KeyRowsOf(twice, u) = user_keys \ KeyRowsOf(user_keys, u)

\* C25 witness: POST /api/keys has answered u1, whose row is made of the
\* uploaded keys, while u2 has a row that only holds a public key
C25_Witness ==
    /\ resp.op = "postKeys" /\ resp.caller = "u1" /\ resp.status = 200
    /\ \E pk \in PublicKeyInputs("u1") : \E mk \in MasterKeyInputs("u1") :
           KeyRowsOf(user_keys, "u1")
               = {UserKey("u1", pk, mk,
                          encryptRSAPrivateKey(PrivateKey("u1", 1), MasterKey("u1", 1)))}
    /\ \E k \in KeyRowsOf(user_keys, "u2") : k.encrypted_master_key = Null

-----------------------------------------------------------------------------
\* The history of a chat, checked under SpecHistory

\* the stored messages of the chat whose history u loads
Batch(u) == GetMessagesBody(chats, messages, u, currentChatId[u])

\* C26: one history load fetches the key listing again at most once and
\* decrypts the batch again at most once
C26_AtMostOneRetry ==
    [][\A b \in Users : LoadsHistory(b) =>
           /\ historyOf(b).passes <= 2
           /\ historyOf(b).refetches <= 1]_vars

\* the pane shows m as its plaintext or as the placeholder of m
Rendered(shown, m) ==
    \/ Undecryptable(m) \in shown
    \/ \E text \in plaintexts({m}, KeyOfCiphertext(m.encrypted_content)) : text \in shown

\* C27: when a history load ends, every message of the batch is shown as its
\* plaintext or as the placeholder, also when the retry's key fails
C27_BatchNeverAborted ==
    [][\A b \in Users : LoadsHistory(b) =>
           \A m \in Batch(b) : Rendered(displayed'[b], m)]_vars

\* the key of u's record in the listing of the chat whose history u loads,
\* Null when there is no record or it does not decrypt
RefetchedKey(u) ==
    ourChatKey(GetChatKeysResponse(chats, chat_keys, u, currentChatId[u]), u, privateKey[u])

\* u loads a history whose first message fails under the key the device
\* holds, while u's record wraps the key all the messages decrypt with
StaleKeyLoad(u) ==
    /\ LoadsHistory(u)
    /\ HeldKey(u, currentChatId[u]) # Null
    /\ RefetchedKey(u) # Null
    /\ \E first \in Batch(u) :
           /\ \A m \in Batch(u) : first.id <= m.id
           /\ first \in failing(Batch(u), HeldKey(u, currentChatId[u]))
    /\ failing(Batch(u), RefetchedKey(u)) = {}

\* C28: a history load with a stale local key and a record wrapping the
\* correct key retries once with the key of the record, and then shows every
\* message of the batch as its plaintext
C28_StaleKeyRecovered ==
    [][\A b \in Users : StaleKeyLoad(b) =>
           /\ historyOf(b).passes = 2
           /\ historyOf(b).refetches = 1
           /\ displayed'[b] = {Message(m.sender_id, m.id) : m \in Batch(b)}
           /\ HeldKey(b, currentChatId[b])' = RefetchedKey(b)]_vars

\* u2, who generated a key of its own, has loaded two messages of u1 with the
\* key of u1 taken from its record
C28_Witness ==
    /\ pc["u2"] = "ready" /\ currentChatId["u2"] = "c1"
    /\ resp.op = "getChatKeys" /\ resp.caller = "u2"
    /\ generated["u2"] = 1
    /\ HeldKey("u2", "c1") = ChatKey("u1", 1)
    /\ Cardinality(messages) = MaxBatch
    /\ \A m \in messages : /\ m.chat_id = "c1"
                           /\ KeyOfCiphertext(m.encrypted_content) = ChatKey("u1", 1)
    /\ displayed["u2"] = {Message(m.sender_id, m.id) : m \in messages}

\* u loads a history in which a message fails under the key the device holds
\* and the listing has no record of u that decrypts
RetryWithoutRecord(u) ==
    /\ LoadsHistory(u)
    /\ HeldKey(u, currentChatId[u]) # Null
    /\ failing(Batch(u), HeldKey(u, currentChatId[u])) # {}
    /\ RefetchedKey(u) = Null

\* C29: when a history load's retry is triggered and the re-fetch yields no
\* record that decrypts, the device holds the stale key of the chat neither
\* in memory nor in its persistent store
C29_StaleKeyInvalidated ==
    [][\A b \in Users : RetryWithoutRecord(b) =>
           /\ ~hasChatKey(chatKeys'[b], currentChatId[b])
           /\ ~hasChatKey(localStorage'[b], currentChatId[b])]_vars

-----------------------------------------------------------------------------
\* The receive path, checked under SpecHistory

\* the step in which b's socket handler takes the event data of the other user
Takes(b, data) ==
    /\ data \in inbox[b] /\ data.from # b
    /\ inbox'[b] = inbox[b] \ {data}
    /\ pc' = pc /\ messages' = messages

\* the key b's handler resolves for data: the one in memory, else the one of
\* b's record; Null when there is no record or it does not decrypt
ResolvedKey(b, data) ==
    LET response == GetMyKeyResponse(chats, chat_keys, b, data.chatId)
    IN  IF hasChatKey(chatKeys[b], data.chatId) THEN keyOf(chatKeys[b], data.chatId)
        ELSE IF response.status = 200
        THEN decryptChatKey(CHOOSE t \in response.terms : TRUE, privateKey[b])
        ELSE Null

\* key resolution or decryption of data fails on b's device
ReceiveFails(b, data) ==
    \/ ResolvedKey(b, data) = Null
    \/ decryptMessage(data.content, data.iv, ResolvedKey(b, data)) = Null

-----------------------------------------------------------------------------
\* The keys devices hold against the records of the directory

\* no handleStartChat of any user is between its requests
NoStartChatInFlight ==
    \A v \in Users : pc[v] \notin {"startChatKeys", "startChatShareSelf",
                                    "startChatPublicKey", "startChatShareRecipient",
                                    "startChatHistory"}

\* C31: whenever a device holds a key for a chat, the directory has a record
\* of the chat for that user and no handleStartChat is in flight, the key held
\* is the key the record decrypts to
C31_CachedKeyMatchesRecord ==
    \A u \in Users : \A chatId \in ChatIds :
        (/\ NoStartChatInFlight
         /\ HeldKey(u, chatId) # Null
         /\ \E r \in RecordsOf(chatId) : r.recipient_id = u)
        => \A r \in RecordsOf(chatId) :
               r.recipient_id = u => KeyOfRecord(r) = HeldKey(u, chatId)

-----------------------------------------------------------------------------
(* The directory when accounts replace their identity keys and the store's  *)
(* operations may fail.  A caller of POST share-key holds the public key it *)
(* fetched in frame until it sends the record wrapped under it.             *)

\* the wrapped master keys a user uploads: one per password it has had
MasterKeyWraps(u) ==
    {encryptMasterKeyWithPassword(MasterKey(u, 1), Password(u, p), u) : p \in 1..MaxPw}

\* deleteUserChatKeys as the store lets it end: both deletes done, the first
\* one failed (nothing deleted), or the second one failed
CleanupOutcomes == {"deleted", "recipientFailed", "senderFailed"}

deleteUserChatKeysOutcome(ck, userId, outcome) ==
    IF outcome = "recipientFailed" THEN ck
    ELSE IF outcome = "senderFailed" THEN {r \in ck : r.recipient_id # userId}
    ELSE deleteUserChatKeys(ck, userId)

\* POST /api/keys; stored tells whether the upsert went through
PostKeysStore(userId, rsa_public_key, encrypted_master_key, encrypted_private_key, stored) ==
    /\ user_keys' = IF stored
                    THEN uploadUserKeys(user_keys, userId, rsa_public_key,
                                        encrypted_master_key, encrypted_private_key)
                    ELSE user_keys
    /\ resp' = Served(Response("postKeys", userId, userId, 200, {}, {}, {}, FALSE), chat_keys)
    /\ UNCHANGED <<chat_keys, chats, messages, users>>

\* PATCH /api/keys; stored tells whether the update went through
PatchKeysStore(userId, encrypted_master_key, stored) ==
    /\ user_keys' = IF stored
                    THEN updateEncryptedMasterKey(user_keys, userId, encrypted_master_key)
                    ELSE user_keys
    /\ resp' = Served(Response("patchKeys", userId, userId, 200, {}, {}, {}, FALSE), chat_keys)
    /\ UNCHANGED <<chat_keys, chats, messages, users>>

\* POST /api/users/public-key; stored tells whether the upsert went through,
\* outcome how the cleanup of a rotation ended
PostPublicKeyStore(userId, public_key, stored, outcome) ==
    LET existingKey == getPublicKey(user_keys, userId)
        isKeyRotation == existingKey # Null
    IN  /\ user_keys' = IF stored THEN upsertPublicKey(user_keys, userId, public_key)
                        ELSE user_keys
        /\ chat_keys' = IF stored /\ isKeyRotation
                        THEN deleteUserChatKeysOutcome(chat_keys, userId, outcome)
                        ELSE chat_keys
        /\ resp' = Served(Response("postPublicKey", userId, userId,
                                   IF stored THEN 200 ELSE 500, {}, {}, {},
                                   stored /\ isKeyRotation), chat_keys)
        /\ UNCHANGED <<chats, messages, users>>

\* the client variables but frame
clientVarsButFrame == <<auth, wire, pc, userPassword, storedMasterKey, privateKey,
                        publicKey, chatKeys, currentChatId, generated, localStorage,
                        rooms, inbox, displayed>>

RotateKeys ==
    /\ \E u \in Users : \E g \in 1..MaxGen : \E mk \in MasterKeyWraps(u) :
       \E stored \in BOOLEAN :
           PostKeysStore(u, PublicKey(u, g), mk,
                         encryptRSAPrivateKey(PrivateKey(u, g), MasterKey(u, 1)), stored)
    /\ UNCHANGED <<clientVars, backendVars>>

RotatePublicKey ==
    /\ \E u \in Users : \E g \in 1..MaxGen : \E stored \in BOOLEAN :
       \E outcome \in CleanupOutcomes :
           PostPublicKeyStore(u, PublicKey(u, g), stored, outcome)
    /\ UNCHANGED <<clientVars, backendVars>>

ChangeMasterKey ==
    /\ \E u \in Users : \E mk \in MasterKeyWraps(u) : \E stored \in BOOLEAN :
           PatchKeysStore(u, mk, stored)
    /\ UNCHANGED <<clientVars, backendVars>>

\* handleStartChat of u: the fetch of the recipient's public key
FetchRecipientKey ==
    /\ \E u \in Users :
           /\ GetPublicKey(u, Other(u))
           /\ frame' = [frame EXCEPT ![u] = getPublicKey(user_keys, Other(u))]
    /\ UNCHANGED <<clientVarsButFrame, backendVars>>

\* handleStartChat of u: the record for the recipient, wrapped under the
\* public key fetched
ShareFetchedKey ==
    /\ \E u \in Users :
           /\ frame[u] # Null
           /\ PostShareKey(u, "c1", Other(u), encryptChatKey(ChatKey(u, 1), frame[u]))
           /\ frame' = [frame EXCEPT ![u] = NoFrame]
    /\ UNCHANGED <<clientVarsButFrame, backendVars>>

NextDirectory ==
    \/ RotateKeys
    \/ RotatePublicKey
    \/ ChangeMasterKey
    \/ FetchRecipientKey
    \/ ShareFetchedKey

SpecDirectory == Init /\ [][NextDirectory]_vars

\* the row of u holds a public key and a wrapped private key of different
\* key pairs
MismatchedRow(k) ==
    /\ k.public_key # Null /\ k.encrypted_rsa_private_key # Null
    /\ \/ k.encrypted_rsa_private_key.owner # k.public_key.owner
       \/ k.encrypted_rsa_private_key.id # k.public_key.id

\* C32: in every reachable state the public key of a user's row is the public
\* half of the key pair whose private half is in the row's wrapped private key
C32_RowInternallyConsistent == \A k \in user_keys : ~MismatchedRow(k)

\* C33: every row of chat_keys is wrapped under the public key its recipient
\* has on file (requests are atomic: no upload is in flight between steps)
C33_RecordsUnderCurrentKey ==
    \A r \in chat_keys :
        LET pk == getPublicKey(user_keys, r.recipient_id)
        IN  pk # Null /\ r.encrypted_chat_key = encryptChatKey(
                ChatKey(r.encrypted_chat_key.owner, r.encrypted_chat_key.id), pk)

\* C35: a directory write answered with success has taken effect: the account
\* keys or the public key sent are in the caller's row, the wrapped master key
\* sent is in the caller's row, and a rotation has removed the caller's rows
\* of chat_keys (every step of SpecDirectory is a request, answered in resp')
C35_SuccessImpliesEffect ==
    [][\A u \in Users :
           (resp'.caller = u /\ resp'.status = 200) =>
               /\ resp'.op = "postKeys" =>
                      \E g \in 1..MaxGen : \E mk \in MasterKeyWraps(u) :
                          user_keys' = uploadUserKeys(user_keys, u, PublicKey(u, g), mk,
                                           encryptRSAPrivateKey(PrivateKey(u, g),
                                                                MasterKey(u, 1)))
               /\ resp'.op = "patchKeys" =>
                      \E k \in user_keys' : /\ k.user_id = u
                                            /\ k.encrypted_master_key \in MasterKeyWraps(u)
               /\ resp'.op = "postPublicKey" =>
                      /\ \E g \in 1..MaxGen :
                             user_keys' = upsertPublicKey(user_keys, u, PublicKey(u, g))
                      /\ resp'.key_rotation =>
                             chat_keys' = deleteUserChatKeys(chat_keys, u)]_vars

-----------------------------------------------------------------------------
\* The recipients of the records, checked under Spec

\* C34: in every reachable state the recipient of every row of chat_keys is a
\* participant of the row's chat, whether POST share-key or the socket event
\* chat:key:share stored it
C34_RecipientsAreParticipants ==
    \A r \in chat_keys : r.recipient_id \in Participants(r.chat_id)

-----------------------------------------------------------------------------
(* Presence (socket/index.ts).  io.on('connection') adds the socket id to   *)
(* connectedUsers at once, then awaits UserModel.updateStatus, the presence *)
(* broadcast and the chat list, and only then registers the socket's        *)
(* listeners, 'disconnect' among them.  A socket's phase tells where its    *)
(* handlers stand: "absent", "connecting" (awaiting updateStatus online),   *)
(* "joining" (status written, awaiting the broadcast and the chat list),    *)
(* "listening" (listeners registered), "disconnecting" (the disconnect      *)
(* handler awaits updateStatus offline) and "closed".                       *)

\* UserModel.updateStatus
updateStatus(us, userId, status) == [us EXCEPT ![userId] = status]

\* the phases in which a handler of the socket is between its awaits
HandlerInProgress(s) == sockets[s].phase \in {"connecting", "joining", "disconnecting"}

\* io.on('connection'): connectedUsers.get(userId).add(socket.id)
SocketConnects(s) ==
    /\ sockets[s] = NoSocket
    /\ sockets' = [sockets EXCEPT ![s] = Socket(TRUE, "connecting")]
    /\ connectedUsers' = [connectedUsers EXCEPT ![SocketUser(s)] = @ \cup {s}]
    /\ UNCHANGED <<userStatus, directRequest, serverVars, clientVars>>

\* io.on('connection'): await UserModel.updateStatus(userId, 'online') returns
OnlineWritten(s) ==
    /\ sockets[s].phase = "connecting"
    /\ userStatus' = updateStatus(userStatus, SocketUser(s), "online")
    /\ sockets' = [sockets EXCEPT ![s].phase = "joining"]
    /\ UNCHANGED <<connectedUsers, directRequest, serverVars, clientVars>>

\* io.on('connection'): the rooms are joined and the listeners registered
ListenersRegistered(s) ==
    /\ sockets[s].phase = "joining"
    /\ sockets' = [sockets EXCEPT ![s].phase = "listening"]
    /\ UNCHANGED <<connectedUsers, userStatus, directRequest, serverVars, clientVars>>

\* the transport closes.  With the listener registered, socket.on('disconnect')
\* removes the id and, for the user's last socket, deletes the map entry and
\* starts updateStatus offline; without it the event has no listener
SocketDisconnects(s) ==
    LET userId == SocketUser(s)
        userSockets == connectedUsers[userId] \ {s}
    IN  /\ sockets[s].open
        /\ IF sockets[s].phase = "listening"
           THEN /\ connectedUsers' = [connectedUsers EXCEPT ![userId] = userSockets]
                /\ sockets' = [sockets EXCEPT
                                  ![s] = Socket(FALSE, IF userSockets = {}
                                                       THEN "disconnecting"
                                                       ELSE "closed")]
           ELSE /\ sockets' = [sockets EXCEPT ![s].open = FALSE]
                /\ UNCHANGED connectedUsers
        /\ UNCHANGED <<userStatus, directRequest, serverVars, clientVars>>

\* socket.on('disconnect'): await UserModel.updateStatus(userId, 'offline') returns
OfflineWritten(s) ==
    /\ sockets[s].phase = "disconnecting"
    /\ userStatus' = updateStatus(userStatus, SocketUser(s), "offline")
    /\ sockets' = [sockets EXCEPT ![s].phase = "closed"]
    /\ UNCHANGED <<connectedUsers, directRequest, serverVars, clientVars>>

connection == \E s \in SocketIds : SocketConnects(s) \/ OnlineWritten(s) \/ ListenersRegistered(s)

disconnect == \E s \in SocketIds : SocketDisconnects(s) \/ OfflineWritten(s)

NextPresence ==
    \/ connection
    \/ disconnect

SpecPresence == InitClient /\ [][NextPresence]_vars

\* the handlers run on: an await that is pending returns
SpecPresenceFair ==
    /\ SpecPresence
    /\ \A s \in SocketIds : /\ WF_vars(OnlineWritten(s))
                            /\ WF_vars(ListenersRegistered(s))
                            /\ WF_vars(OfflineWritten(s))

\* the sockets of the user that are connected
OpenSockets(u) == {s \in SocketIds : SocketUser(s) = u /\ sockets[s].open}

\* C37: whenever no connection or disconnect handler is in progress, a user's
\* stored status is online if and only if the user has a connected socket
C37_PresenceFollowsSockets ==
    (\A s \in SocketIds : ~HandlerInProgress(s))
        => \A u \in Users : userStatus[u] = "online" <=> OpenSockets(u) # {}

\* every socket of the user has connected and its transport has closed: none
\* is open and no new one connects
AllSocketsGone(u) ==
    \A s \in SocketIds : SocketUser(s) = u => (sockets[s] # NoSocket /\ ~sockets[s].open)

\* C38: after all sockets of a user have disconnected, the user is eventually
\* removed from connectedUsers and marked offline
C38_EventuallyOffline ==
    \A u \in Users :
        AllSocketsGone(u) ~> (connectedUsers[u] = {} /\ userStatus[u] = "offline")

-----------------------------------------------------------------------------
(* Messages: the two ways to send one (socket 'message:send', POST          *)
(* /api/messages), with the store's insert succeeding or failing, and the   *)
(* status acknowledgments ('message:delivered', 'message:read', POST        *)
(* /api/messages/:chatId/read).                                             *)

\* MessageModel.createMessage with the outcome of the insert: the new table,
\* and whether the row is returned (null on error)
createMessageOutcome(ms, chatId, senderId, encryptedContent, iv, stored) ==
    IF stored THEN createMessage(ms, chatId, senderId, encryptedContent, iv) ELSE ms

\* the emits of socket.on('message:send'): the broadcast inside if (message)
BroadcastOf(message, chatId, userId, encryptedContent, iv) ==
    IF message THEN {MessageReceive(chatId, userId, encryptedContent, iv)} ELSE {}

\* variant: the broadcast made whether or not the caller is in the chat and
\* the row was stored
SocketMessageSendUnchecked(userId, chatId, encryptedContent, iv, stored) ==
    LET isInChat == isUserInChat(chats, chatId, userId)
    IN  /\ messages' = IF isInChat
                        THEN createMessageOutcome(messages, chatId, userId,
                                                  encryptedContent, iv, stored)
                        ELSE messages
        /\ resp' = Served(Response("socketMessageSend", userId, chatId,
                                   IF isInChat THEN 200 ELSE 403, {}, {},
                                   BroadcastOf(TRUE, chatId, userId, encryptedContent, iv),
                                   FALSE), chat_keys)
        /\ UNCHANGED <<user_keys, chat_keys, chats, users>>

\* socket.on('message:send'): 403 stands for the error event, 400 for a
\* createMessage that returned null (nothing is emitted)
SocketMessageSendStore(userId, chatId, encryptedContent, iv, stored) ==
    LET isInChat == isUserInChat(chats, chatId, userId)
        message == isInChat /\ stored
    IN  /\ messages' = IF isInChat
                        THEN createMessageOutcome(messages, chatId, userId,
                                                  encryptedContent, iv, stored)
                        ELSE messages
        /\ resp' = Served(Response("socketMessageSend", userId, chatId,
                                   IF ~isInChat THEN 403
                                   ELSE IF message THEN 200 ELSE 400, {}, {},
                                   BroadcastOf(message, chatId, userId,
                                               encryptedContent, iv),
                                   FALSE), chat_keys)
        /\ UNCHANGED <<user_keys, chat_keys, chats, users>>

\* POST /api/messages: no broadcast
PostMessageStore(userId, chat_id, encrypted_content, iv, stored) ==
    LET isInChat == isUserInChat(chats, chat_id, userId)
        message == isInChat /\ stored
    IN  /\ messages' = IF isInChat
                        THEN createMessageOutcome(messages, chat_id, userId,
                                                  encrypted_content, iv, stored)
                        ELSE messages
        /\ resp' = Served(Response("postMessage", userId, chat_id,
                                   IF ~isInChat THEN 403
                                   ELSE IF message THEN 200 ELSE 400, {}, {}, {},
                                   FALSE), chat_keys)
        /\ UNCHANGED <<user_keys, chat_keys, chats, users>>

\* MessageModel.updateMessageStatus: update({status}).eq('id', messageId)
updateMessageStatus(ms, messageId, status) ==
    {IF m.id = messageId THEN [m EXCEPT !.status = status] ELSE m : m \in ms}

\* MessageModel.markAsRead: the chat's messages of other senders whose status
\* is sent or delivered
markAsRead(ms, chatId, userId) ==
    {IF /\ m.chat_id = chatId
        /\ m.sender_id # userId
        /\ m.status \in {"sent", "delivered"}
     THEN [m EXCEPT !.status = "read"]
     ELSE m : m \in ms}

\* socket.on('message:delivered')
SocketMessageDelivered(userId, messageId) ==
    /\ messages' = updateMessageStatus(messages, messageId, "delivered")
    /\ resp' = Served(Response("socketMessageDelivered", userId, NoChat, 200,
                               {}, {}, {}, FALSE), chat_keys)
    /\ UNCHANGED <<user_keys, chat_keys, chats, users>>

\* socket.on('message:read') and POST /api/messages/:chatId/read
MessageRead(op, userId, chatId) ==
    /\ messages' = markAsRead(messages, chatId, userId)
    /\ resp' = Served(Response(op, userId, chatId, 200, {}, {}, {}, FALSE), chat_keys)
    /\ UNCHANGED <<user_keys, chat_keys, chats, users>>

\* what a caller sends as its n-th message: content under its own chat key
MessageInputs(u, n) == encryptMessage(Message(u, n), ChatKey(u, 1))

\* chats a request may name
RequestChats == {"c1", "c2"}

SendOverSocket ==
    /\ Cardinality(messages) < MaxBatch
    /\ \E u \in Users : \E c \in RequestChats : \E stored \in BOOLEAN :
           LET sent == MessageInputs(u, Cardinality(messages) + 1)
           IN  SocketMessageSendStore(u, c, sent.encrypted, sent.iv, stored)
    /\ UNCHANGED <<clientVars, backendVars>>

SendOverHttp ==
    /\ Cardinality(messages) < MaxBatch
    /\ \E u \in Users : \E c \in RequestChats : \E stored \in BOOLEAN :
           LET sent == MessageInputs(u, Cardinality(messages) + 1)
           IN  PostMessageStore(u, c, sent.encrypted, sent.iv, stored)
    /\ UNCHANGED <<clientVars, backendVars>>

AcknowledgeDelivered ==
    /\ \E u \in Users : \E id \in 1..MaxBatch : SocketMessageDelivered(u, id)
    /\ UNCHANGED <<clientVars, backendVars>>

AcknowledgeRead ==
    /\ \E u \in Users : \E c \in RequestChats :
           \E op \in {"socketMessageRead", "postMessagesRead"} : MessageRead(op, u, c)
    /\ UNCHANGED <<clientVars, backendVars>>

NextMessaging ==
    \/ SendOverSocket
    \/ SendOverHttp
    \/ AcknowledgeDelivered
    \/ AcknowledgeRead

SpecMessaging == Init /\ [][NextMessaging]_vars

\* the step is a send request (over the socket or over HTTP)
SendHandled == resp'.op \in {"socketMessageSend", "postMessage"}

\* the event carries a row of the table
Persisted(e, ms) ==
    \E m \in ms : /\ m.chat_id = e.chatId
                  /\ m.sender_id = e.from
                  /\ m.encrypted_content = e.content
                  /\ m.iv = e.iv

\* C36: every stored message has a participant of its chat as sender; a send
\* request stores only rows whose sender is the authenticated caller, emits
\* message:receive only for a row that is stored, and stores and emits
\* nothing when the caller is not a participant of the chat
C36_OnlyParticipantsSend ==
    /\ [](\A m \in messages : m.sender_id \in Participants(m.chat_id))
    /\ [][SendHandled =>
            /\ \A m \in messages' \ messages :
                   m.sender_id = resp'.caller /\ m.chat_id = resp'.target
            /\ \A e \in resp'.emits :
                   /\ e.event = "message:receive"
                   /\ e.from = resp'.caller
                   /\ Persisted(e, messages')
            /\ resp'.caller \notin Participants(resp'.target)
                   => (messages' = messages /\ resp'.emits = {})]_vars

\* a non-participant's send over the socket was refused after a message of a
\* participant was stored and broadcast
C36_Witness ==
    /\ resp.op = "socketMessageSend"
    /\ resp.caller = "u2"
    /\ resp.target = "c2"
    /\ resp.status = 403
    /\ \E m \in messages : m.chat_id = "c2" /\ m.sender_id = "u1"

\* ranks of the delivery status
StatusRank(status) == CASE status = "sent" -> 0 [] status = "delivered" -> 1 [] OTHER -> 2

\* C40: the delivery status of a message never moves backwards
C40_StatusOnlyForward ==
    [][\A m \in messages : \A n \in messages' :
           n.id = m.id => StatusRank(n.status) >= StatusRank(m.status)]_vars

-----------------------------------------------------------------------------
(* POST /api/chats/direct/:userId as the requests of several callers run:   *)
(* the route is cut at the store operations it awaits.  directRequest tells *)
(* where a caller's request stands: "idle", "createChat" (the route's       *)
(* getDirectChat found nothing, ChatModel.createChat is called) and         *)
(* "insert" (createChat's own getDirectChat found nothing either).          *)

\* uuidv4(): an id no row has
uuidv4(ch) == CHOOSE id \in ChatIds : \A c \in ch : c.id # id

\* ChatModel.createChat: the insert
insertChat(ch, type, participants) == ch \cup {Chat(uuidv4(ch), type, participants)}

\* the response of the route
DirectChatResponse(currentUserId, otherUserId, status) ==
    Served(Response("postDirectChat", currentUserId, otherUserId, status,
                    {}, {}, {}, FALSE), chat_keys)

\* the route up to and including let chat = await ChatModel.getDirectChat(...)
DirectLookup(currentUserId, otherUserId) ==
    LET status == DirectChatStatus(users, currentUserId, otherUserId)
        chat == getDirectChat(chats, currentUserId, otherUserId)
    IN  /\ directRequest[currentUserId] = "idle"
        /\ users' = IF status # 400 THEN users \cup {currentUserId} ELSE users
        /\ IF status = 200 /\ chat = {}
           THEN /\ directRequest' = [directRequest EXCEPT ![currentUserId] = "createChat"]
                /\ UNCHANGED resp
           ELSE /\ resp' = DirectChatResponse(currentUserId, otherUserId, status)
                /\ UNCHANGED directRequest
        /\ UNCHANGED <<user_keys, chat_keys, chats, messages, clientVars,
                       sockets, connectedUsers, userStatus>>

\* ChatModel.createChat: const existing = await this.getDirectChat(...)
DirectCreateChat(currentUserId) ==
    LET existing == getDirectChat(chats, currentUserId, Other(currentUserId))
    IN  /\ directRequest[currentUserId] = "createChat"
        /\ IF existing # {}
           THEN /\ resp' = DirectChatResponse(currentUserId, Other(currentUserId), 200)
                /\ directRequest' = [directRequest EXCEPT ![currentUserId] = "idle"]
           ELSE /\ directRequest' = [directRequest EXCEPT ![currentUserId] = "insert"]
                /\ UNCHANGED resp
        /\ UNCHANGED <<user_keys, chat_keys, chats, messages, users, clientVars,
                       sockets, connectedUsers, userStatus>>

\* ChatModel.createChat: the insert, and the route's res.json({ chat })
DirectInsert(currentUserId) ==
    /\ directRequest[currentUserId] = "insert"
    /\ Cardinality(chats) < Cardinality(ChatIds)
    /\ chats' = insertChat(chats, "direct", {currentUserId, Other(currentUserId)})
    /\ resp' = DirectChatResponse(currentUserId, Other(currentUserId), 200)
    /\ directRequest' = [directRequest EXCEPT ![currentUserId] = "idle"]
    /\ UNCHANGED <<user_keys, chat_keys, messages, users, clientVars,
                   sockets, connectedUsers, userStatus>>

postDirectChat ==
    \E u \in Users : \/ \E other \in Users : DirectLookup(u, other)
                     \/ DirectCreateChat(u)
                     \/ DirectInsert(u)

NextDirectChat == postDirectChat

SpecDirectChat == InitClient /\ [][NextDirectChat]_vars

\* the direct chats of the pair
DirectChatsOf(u, v) == {c \in chats : c.type = "direct" /\ {u, v} \subseteq c.participants}

\* C39: at most one direct chat exists for any pair of users
C39_OneDirectChatPerPair ==
    \A u, v \in Users : u # v => Cardinality(DirectChatsOf(u, v)) <= 1

====
